---- MODULE Spec2Model ----
(***************************************************************************)
(* Model of serial/manager.c (BlueZ serial service): the pending-connection *)
(* state machine behind ConnectService / CreatePort /                       *)
(* CancelConnectService, its discovery and connect callbacks, the           *)
(* device-open retry timer and the requester-exit sweep; and the proxies     *)
(* behind CreateProxy / RemoveProxy / Enable / Disable / GetInfo /          *)
(* SetSerialParameters with their accept and forwarding watches.            *)
(*                                                                          *)
(* C strings are sequences of one-character strings, so that strcasecmp,    *)
(* strncasecmp and strtol are computed character by character.              *)
(***************************************************************************)
EXTENDS Integers, Sequences, FiniteSets, TLC

(***************************************************************************)
(* Bounds of the model.                                                     *)
(***************************************************************************)
\* number of heap cells a struct pending_connect can be allocated in
NAddr == 2
\* number of method calls (ConnectService, CreatePort) the manager receives
MaxReq == 2
MaxReqInputs == 1
\* number of proxy objects register_proxy_object creates (values of sk_counter)
MaxProxy == 2
MaxProxyInputs == 1
\* number of watches the main loop hands out an id for
MaxWatch == 5
\* last watch id a connection takes in the runs with every kind of argument
MaxWatchInputs == 4
\* number of service records the directory service holds at a time
MaxRecord == 2

(***************************************************************************)
(* Program constants.                                                       *)
(***************************************************************************)
MAX_OPEN_TRIES == 5

\* the terminating NUL of a C string
NUL == "\\0"

BASE_UUID ==
  << "0","0","0","0","0","0","0","0","-","0","0","0","0","-","1","0","0","0","-",
     "8","0","0","0","-","0","0","8","0","5","F","9","B","3","4","F","B" >>

\* the table serial_services[]: friendly name, service class
serial_services ==
  << [name |-> <<"v","c","p">>,          class |-> 4367],
     [name |-> <<"p","b","a","p">>,      class |-> 4400],
     [name |-> <<"s","a","p">>,          class |-> 4397],
     [name |-> <<"f","t","p">>,          class |-> 4358],
     [name |-> <<"b","p","p">>,          class |-> 4386],
     [name |-> <<"b","i","p">>,          class |-> 4378],
     [name |-> <<"s","y","n","c","h">>,  class |-> 4356],
     [name |-> <<"d","u","n">>,          class |-> 4355],
     [name |-> <<"o","p","p">>,          class |-> 4357],
     [name |-> <<"f","a","x">>,          class |-> 4369],
     [name |-> <<"s","p","p">>,          class |-> 4353] >>

(***************************************************************************)
(* libc string functions, as the code uses them.                            *)
(***************************************************************************)
UpperChars == <<"A","B","C","D","E","F","G","H","I","J","K","L","M",
                "N","O","P","Q","R","S","T","U","V","W","X","Y","Z">>
LowerChars == <<"a","b","c","d","e","f","g","h","i","j","k","l","m",
                "n","o","p","q","r","s","t","u","v","w","x","y","z">>

tolower(c) ==
  IF \E i \in 1..26 : UpperChars[i] = c
    THEN LowerChars[CHOOSE i \in 1..26 : UpperChars[i] = c]
    ELSE c

\* the character at 1-based position i of a C string, NUL from its end on
CharAt(s, i) == IF i <= Len(s) THEN s[i] ELSE NUL

\* strcasecmp(s, t) == 0
strcasecmp_eq(s, t) ==
  /\ Len(s) = Len(t)
  /\ \A i \in 1..Len(s) : tolower(s[i]) = tolower(t[i])

\* strncasecmp(s, t, n) == 0: the first n characters agree, or both strings
\* end, with all characters before equal, within them
strncasecmp_eq(s, t, n) ==
  \A i \in 1..n :
    (\A j \in 1..(i-1) : CharAt(s, j) # NUL)
      => tolower(CharAt(s, i)) = tolower(CharAt(t, i))

\* the tail of s from 1-based position i on (the C pointer s + (i-1))
StrFrom(s, i) == IF i > Len(s) THEN << >> ELSE SubSeq(s, i, Len(s))

(***************************************************************************)
(* strtol(pattern, &endptr, 0) on a 64-bit long.  The magnitude is kept as  *)
(* four 16-bit limbs, least significant first, so that the width of long    *)
(* and of the uint32_t record handle is the code's.                         *)
(***************************************************************************)
Limb == 2^16
ZeroMag == <<0, 0, 0, 0>>

isspace(c) == c \in {" ", "\t", "\n", "\r", "\f"}

\* value of a digit character, 99 when c is no digit or letter
DigitChars == <<"0","1","2","3","4","5","6","7","8","9">>
DigitVal(c) ==
  IF \E i \in 1..10 : DigitChars[i] = c
    THEN (CHOOSE i \in 1..10 : DigitChars[i] = c) - 1
    ELSE IF \E i \in 1..26 : LowerChars[i] = tolower(c)
      THEN (CHOOSE i \in 1..26 : LowerChars[i] = tolower(c)) + 9
      ELSE 99

\* mag * base + d, with the carry out of the fourth limb
MulAdd(mag, base, d) ==
  LET c1 == mag[1] * base + d
      c2 == mag[2] * base + (c1 \div Limb)
      c3 == mag[3] * base + (c2 \div Limb)
      c4 == mag[4] * base + (c3 \div Limb)
  IN [mag |-> <<c1 % Limb, c2 % Limb, c3 % Limb, c4 % Limb>>,
      carry |-> c4 \div Limb]

\* the magnitude does not fit a long of the given sign (LONG_MAX = 2^63 - 1,
\* LONG_MIN = -2^63)
OutOfLong(mag, neg) ==
  IF neg
    THEN \/ mag[4] > 32768
         \/ (mag[4] = 32768 /\ (mag[1] # 0 \/ mag[2] # 0 \/ mag[3] # 0))
    ELSE mag[4] >= 32768

\* the digits of the subject sequence from position i on
RECURSIVE StrtolDigits(_, _, _, _)
StrtolDigits(s, i, base, acc) ==
  IF DigitVal(CharAt(s, i)) >= base
    THEN [mag |-> acc.mag, erange |-> acc.erange, end |-> i]
    ELSE LET r == MulAdd(acc.mag, base, DigitVal(CharAt(s, i)))
         IN StrtolDigits(s, i + 1, base,
              [mag |-> r.mag,
               erange |-> acc.erange \/ r.carry # 0 \/ OutOfLong(r.mag, acc.neg),
               neg |-> acc.neg])

RECURSIVE SkipSpace(_, _)
SkipSpace(s, i) == IF isspace(CharAt(s, i)) THEN SkipSpace(s, i + 1) ELSE i

\* [neg, mag]: the long returned; erange: errno = ERANGE; end: the 1-based
\* position endptr points to (1 = the start of the string: no conversion)
strtol(s) ==
  LET i0   == SkipSpace(s, 1)
      neg  == CharAt(s, i0) = "-"
      i1   == IF CharAt(s, i0) \in {"-", "+"} THEN i0 + 1 ELSE i0
      hex  == /\ CharAt(s, i1) = "0"
              /\ tolower(CharAt(s, i1 + 1)) = "x"
              /\ DigitVal(CharAt(s, i1 + 2)) < 16
      base == IF hex THEN 16 ELSE IF CharAt(s, i1) = "0" THEN 8 ELSE 10
      i2   == IF hex THEN i1 + 2 ELSE i1
      r    == StrtolDigits(s, i2, base,
                [mag |-> ZeroMag, erange |-> FALSE, neg |-> neg])
  IN IF r.end = i2
       THEN [neg |-> FALSE, mag |-> ZeroMag, erange |-> FALSE, end |-> 1]
       ELSE [neg |-> neg /\ r.mag # ZeroMag, mag |-> r.mag,
             erange |-> r.erange, end |-> r.end]

\* comparisons of a long with the small constants the code compares it with
LongLess(v, n) ==            \* v < n, for 0 < n <= 65536
  \/ v.neg
  \/ (v.mag[2] = 0 /\ v.mag[3] = 0 /\ v.mag[4] = 0 /\ v.mag[1] < n)
LongGreater(v, n) ==         \* v > n, for 0 <= n < 65536
  /\ ~v.neg
  /\ (v.mag[2] # 0 \/ v.mag[3] # 0 \/ v.mag[4] # 0 \/ v.mag[1] > n)

\* (uint32_t) v of a long v >= 0: its two low limbs, <<high, low>>
ToUint32(v) == <<v.mag[2], v.mag[1]>>
\* a faulty (uint8_t) v, which takes the second byte
ToUint8_second(v) == (v.mag[1] \div 256) % 256
\* (uint8_t) v
ToUint8(v) == v.mag[1] % 256

(***************************************************************************)
(* The pattern resolver.                                                    *)
(***************************************************************************)
str2class(pattern) ==
  IF \E i \in 1..Len(serial_services) :
       strcasecmp_eq(serial_services[i].name, pattern)
    THEN serial_services[
           CHOOSE i \in 1..Len(serial_services) :
             /\ strcasecmp_eq(serial_services[i].name, pattern)
             /\ \A j \in 1..(i-1) :
                  ~strcasecmp_eq(serial_services[j].name, pattern)].class
    ELSE 0

\* [err, uuid]: err = "0" and the UUID to look up (the service class of a
\* friendly name, or the pattern itself), or err = "EINVAL" for -EINVAL
pattern2uuid128(pattern) ==
  IF str2class(pattern) # 0
    THEN [err |-> "0", uuid |-> <<"class", str2class(pattern)>>]
    ELSE IF /\ Len(pattern) = 36
            /\ strncasecmp_eq(BASE_UUID, pattern, 3)
            /\ strncasecmp_eq(StrFrom(BASE_UUID, 9), StrFrom(pattern, 9), 28)
      THEN [err |-> "0", uuid |-> <<"uuid128", pattern>>]
      ELSE [err |-> "EINVAL", uuid |-> << >>]

\* [err, val]: err = "0" and the long parsed, or err = "EINVAL" for -EINVAL
pattern2long(pattern) ==
  LET r == strtol(pattern)
  IN IF r.erange \/ r.end = 1
       THEN [err |-> "EINVAL", val |-> [neg |-> FALSE, mag |-> ZeroMag]]
       ELSE [err |-> "0", val |-> [neg |-> r.neg, mag |-> r.mag]]

(***************************************************************************)
(* The inputs of the model.                                                 *)
(***************************************************************************)
\* D-Bus unique names of the clients
Requesters == {"r1", "r2"}

\* heap cells (the addresses g_new0 can return for a struct pending_connect)
Addrs == 1..NAddr
NULL == 0

\* RFCOMM device ids the kernel hands out
DevIds == 0..(MaxReq - 1)

\* remote addresses, as the strings the clients send: two spellings of one
\* address, and another address
Bdas == { <<"a">>, <<"A">>, <<"b">> }
FewBdas == { <<"a">>, <<"A">> }

\* the patterns a client may send: friendly names, UUID strings, numbers in
\* the notations of strtol, and strings that are none of these
Patterns ==
  { <<"S","P","P">>,
    <<"0","0","0","0","0","0","0","5">> \o StrFrom(BASE_UUID, 9),
    <<"1">> \o StrFrom(BASE_UUID, 2),
    <<"5">>, <<"0","5">>, <<"0","x","5">>, <<"5","a","b","c">>, <<" ","7">>,
    <<"3","0">>, <<"3","1">>, <<"0">>, <<"-","5">>,
    <<"6","5","5","3","6">>, <<"0","x","1","0","0","0","0">>,
    <<"0","x","f","f","f","f">>,
    <<"0","X","1","0","0","0","1","0","0","0","0">>,
    <<"0","x">>, <<"x">>, << >> }
\* the patterns of the runs with several requests: a friendly name and a
\* channel
FewPatterns == { <<"s","p","p">>, <<"5">> }
\* the patterns CancelConnectService is called with when requests come one at
\* a time: a friendly name in two spellings, a channel in two notations, and
\* the empty string
CancelPatterns ==
  { <<"S","P","P">>, <<"s","p","p">>, <<"5">>, <<"0","5">>, << >> }

\* record handles a handle lookup returns, as <<high, low>> 16-bit halves
Handle1 == <<1, 0>>
Handle2 == <<1, 1>>
\* the replies to GetRemoteServiceHandles
HandlesReplies ==
  { [kind |-> "error", name |-> "org.bluez.Error.ConnectionAttemptFailed"],
    [kind |-> "error", name |-> "org.bluez.Error.Failed"],
    [kind |-> "badargs"],
    [kind |-> "handles", handles |-> << >>],
    [kind |-> "handles", handles |-> <<Handle1>>],
    [kind |-> "handles", handles |-> <<Handle2, Handle1>>] }
FewHandlesReplies ==
  { [kind |-> "error", name |-> "org.bluez.Error.ConnectionAttemptFailed"],
    [kind |-> "handles", handles |-> <<Handle1>>] }

\* the replies to GetRemoteServiceRecord; of a record: len the length of the
\* byte array, pdu whether sdp_extract_pdu returns a record, scanned the bytes
\* it consumed, protos the result of sdp_get_access_protos, ch the result of
\* sdp_get_proto_port(protos, RFCOMM_UUID) (0 when there is none)
Record(len, pdu, scanned, protos, ch) ==
  [kind |-> "record", len |-> len, pdu |-> pdu, scanned |-> scanned,
   protos |-> protos, ch |-> ch]
RecordReplies ==
  { [kind |-> "error", name |-> "org.bluez.Error.ConnectionAttemptFailed"],
    [kind |-> "error", name |-> "org.bluez.Error.Failed"],
    [kind |-> "badargs"],
    Record(0, FALSE, 0, -1, 0),
    Record(2, FALSE, 0, -1, 0),
    Record(2, TRUE, 1, 0, 3),
    Record(2, TRUE, 2, -1, 0),
    Record(2, TRUE, 2, 0, 0),
    Record(2, TRUE, 2, 0, 31),
    Record(2, TRUE, 2, 0, 1),
    Record(2, TRUE, 2, 0, 30) }
FewRecordReplies ==
  { [kind |-> "error", name |-> "org.bluez.Error.Failed"],
    Record(2, TRUE, 2, 0, 1) }

\* what the system calls of one handler run return, the record e the C
\* functions below take:
\*   adapter whether dev_id >= 0 and hci_devba succeeds
\*   send    whether dbus_connection_send_with_reply succeeds
\*   sock    how far rfcomm_connect gets: "socket" and "bind" fail there,
\*           "connect" fails in connect(), "inprogress" is EAGAIN/EINPROGRESS,
\*           "connected" is a connect() that succeeds at once
\*   so      rfcomm_connect_cb: "getsockopt" fails, "so_error" is a pending
\*           socket error, "ok"
\*   bind    whether RFCOMMCREATEDEV succeeds
\*   open    whether the node of an existing device can be opened yet
Env(adapter, send, sock, so, bind, open) ==
  [adapter |-> adapter, send |-> send, sock |-> sock, so |-> so,
   bind |-> bind, open |-> open]

(***************************************************************************)
(* The state.  The C functions are operators from a state record to the     *)
(* state record after the call, so that one function can call another; the  *)
(* actions below assign the variables from the result.                      *)
(***************************************************************************)
VARIABLES
  heap,              \* the struct pending_connect in each heap cell, or NoPc
  pending_connects,  \* the GSList pending_connects: a sequence of addresses
  handles_calls,     \* per address: the GetRemoteServiceHandles calls whose
                     \* notify data is that address
  record_calls,      \* the same for GetRemoteServiceRecord
  timers,            \* per address: the open_continue timeouts with that data
  watches,           \* per address: the rfcomm_connect_cb watches with that data
  devs,              \* the kernel's RFCOMM devices, by id
  ports_paths,       \* the GSList ports_paths: the ids of the registered ports
  listeners,         \* per requester: the registered transaction_owner_exited
                     \* name listeners
  nmsgs,             \* the method calls received so far (ConnectService,
                     \* ConnectServiceFromAdapter and CreatePort)
  status,            \* "running", "unregistered" after manager_unregister,
                     \* "crashed" after a use of freed memory
  replies,           \* per method call (by serial): the replies sent to it so
                     \* far, which the program does not keep
  proxies_paths,     \* the GSList proxies_paths: the numbers of the paths
                     \* /org/bluez/serial/proxy<n>
  sk_counter,        \* the counter the proxy paths are numbered from
  objects,           \* per proxy path: the struct proxy that is the user data
                     \* of the object, or NoPrx when no object is registered
  sources,           \* the watches of the main loop, by id: the accept watch
                     \* of a listener or a forward_data watch, or NoSrc
  next_id,           \* the id the main loop gives the next watch
  sdp_records,       \* the ids of the records the directory service holds
  out                \* what the last handler run did: the call or callback
                     \* that ran, then its replies, signals and system calls

vars == << heap, pending_connects, handles_calls, record_calls, timers, watches,
           devs, ports_paths, listeners, nmsgs, status, replies,
           proxies_paths, sk_counter, objects, sources, next_id, sdp_records,
           out >>

NoMsg == [serial |-> 0]
NoPc == [msg |-> NoMsg]
NoDev == [req |-> 0]
NoPrx == [type |-> "none"]
NoSrc == [kind |-> "none"]

\* the numbers of the proxy paths, the ids of the watches and of the records
ProxyPaths == 0..(MaxProxy - 1)
WatchIds == 1..MaxWatch
RecordIds == 1..MaxRecord

\* the state a handler starts in: out holds the handler's name and arguments
State(header) ==
  [heap |-> heap, pending_connects |-> pending_connects,
   handles_calls |-> handles_calls, record_calls |-> record_calls,
   timers |-> timers, watches |-> watches, devs |-> devs,
   ports_paths |-> ports_paths, listeners |-> listeners, nmsgs |-> nmsgs,
   proxies_paths |-> proxies_paths, sk_counter |-> sk_counter,
   objects |-> objects, sources |-> sources, next_id |-> next_id,
   sdp_records |-> sdp_records, crashed |-> FALSE,
   out |-> <<header>>]

\* the serials of the method calls that start a request
Serials == 1..MaxReq
\* the number of replies the run o sent to the method call serial
RepliesIn(o, serial) ==
  Cardinality({i \in 2..Len(o) : o[i][1] = "reply" /\ o[i][2] = serial})

Commit(st) ==
  \E x \in {st} :
    /\ heap' = x.heap
    /\ pending_connects' = x.pending_connects
    /\ handles_calls' = x.handles_calls
    /\ record_calls' = x.record_calls
    /\ timers' = x.timers
    /\ watches' = x.watches
    /\ devs' = x.devs
    /\ ports_paths' = x.ports_paths
    /\ listeners' = x.listeners
    /\ nmsgs' = x.nmsgs
    /\ proxies_paths' = x.proxies_paths
    /\ sk_counter' = x.sk_counter
    /\ objects' = x.objects
    /\ sources' = x.sources
    /\ next_id' = x.next_id
    /\ sdp_records' = x.sdp_records
    /\ out' = x.out
    /\ replies' = [s \in Serials |-> replies[s] + RepliesIn(x.out, s)]

\* g_slist_find(list, a) # NULL
g_slist_find(list, a) == \E i \in 1..Len(list) : list[i] = a

\* g_slist_remove(list, a): without the first element equal to a
g_slist_remove(list, a) ==
  IF g_slist_find(list, a)
    THEN LET k == CHOOSE i \in 1..Len(list) :
                    list[i] = a /\ \A j \in 1..(i-1) : list[j] # a
         IN SubSeq(list, 1, k - 1) \o SubSeq(list, k + 1, Len(list))
    ELSE list

\* a DBusMessage, a method call: serial numbers the calls in the order the
\* manager received them (0 for CancelConnectService, which starts nothing)
Message(serial, sender, member) ==
  [serial |-> serial, sender |-> sender, member |-> member]

\* something done in the name of a method call: ev = <<kind, serial, ...>>
Log(st, ev) == [st EXCEPT !.out = Append(@, ev)]

\* the replies and signals, sent on pc->conn for pc->msg
send_reply(st, msg, kind, arg) == Log(st, <<"reply", msg.serial, kind, arg>>)
emit_signal(st, msg, name, arg) == Log(st, <<"signal", msg.serial, name, arg>>)

\* dbus_message_get_sender(pc->msg)
Sender(st, a) == st.heap[a].msg.sender
\* dbus_message_has_member(pc->msg, member)
HasMember(st, a, member) == st.heap[a].msg.member = member

(***************************************************************************)
(* The kernel's RFCOMM devices and the name listeners.                      *)
(***************************************************************************)
\* the id RFCOMMCREATEDEV gives a device asked for with dev_id = -1
FreeDevIds(st) == {d \in DevIds : st.devs[d] = NoDev}
LowestFree(st) == CHOOSE d \in FreeDevIds(st) : \A x \in FreeDevIds(st) : d <= x

\* RFCOMMCREATEDEV: the device msg's handler creates on channel ch
CreateDev(st, msg, ch, persistent) ==
  [st EXCEPT !.devs[LowestFree(st)] =
     [req |-> msg.serial, channel |-> ch, persistent |-> persistent,
      listener |-> FALSE]]

\* rfcomm_release(id), called while serving msg; releasing an id that names no
\* device fails in the kernel and changes nothing
rfcomm_release(st, msg, id) ==
  LET st1 == Log(st, <<"release", msg.serial, id>>)
  IN IF id \in DevIds /\ st.devs[id] # NoDev
       THEN [st1 EXCEPT !.devs[id] = NoDev]
       ELSE st1

\* name_listener_add / name_listener_remove for transaction_owner_exited: one
\* registration is added per call and one is removed per call, if there is one
name_listener_add(st, name) == [st EXCEPT !.listeners[name] = @ + 1]
name_listener_remove(st, name) ==
  [st EXCEPT !.listeners[name] = IF @ > 0 THEN @ - 1 ELSE 0]

(***************************************************************************)
(* The pending-connection functions of manager.c.                           *)
(***************************************************************************)
pending_connect_free(st, a) ==
  [st EXCEPT !.watches[a] = IF st.heap[a].io_active THEN @ - 1 ELSE @,
             !.heap[a] = NoPc]

\* Faulty variants of find_pending_connect_by_pattern, which the properties of
\* the registry must tell from it: one that finds nothing, one that compares
\* with strcmp.
find_pending_connect_none(st, bda, pattern) == NULL

find_pending_connect_strcmp(st, bda, pattern) ==
  LET l == st.pending_connects
      match(i) == st.heap[l[i]].bda = bda /\ st.heap[l[i]].pattern = pattern
  IN IF \E i \in 1..Len(l) : match(i)
       THEN l[CHOOSE i \in 1..Len(l) : match(i) /\ \A j \in 1..(i-1) : ~match(j)]
       ELSE NULL

\* the first pending connect with this address and pattern, or NULL
find_pending_connect_by_pattern(st, bda, pattern) ==
  LET l == st.pending_connects
      match(i) == /\ strcasecmp_eq(st.heap[l[i]].bda, bda)
                  /\ strcasecmp_eq(st.heap[l[i]].pattern, pattern)
  IN IF \E i \in 1..Len(l) : match(i)
       THEN l[CHOOSE i \in 1..Len(l) : match(i) /\ \A j \in 1..(i-1) : ~match(j)]
       ELSE NULL

\* the loop of transaction_owner_exited over the list l
RECURSIVE owner_exited_loop(_, _, _, _)
owner_exited_loop(st, name, l, tmp) ==
  IF l = << >>
    THEN [st EXCEPT !.pending_connects = tmp]
    ELSE LET a == Head(l)
         IN IF Sender(st, a) # name
              THEN owner_exited_loop(st, name, Tail(l), Append(tmp, a))
              ELSE LET st1 == IF st.heap[a].id >= 0
                                THEN rfcomm_release(st, st.heap[a].msg, st.heap[a].id)
                                ELSE st
                   IN owner_exited_loop(pending_connect_free(st1, a),
                                        name, Tail(l), tmp)

\* pending_connect_free of every pending connect of the list l, as the loop
\* of manager_unregister does
RECURSIVE free_all(_, _)
free_all(st, l) ==
  IF l = << >> THEN st ELSE free_all(pending_connect_free(st, Head(l)), Tail(l))

\* A faulty variant of transaction_owner_exited, which frees the pending
\* connects of the owner but leaves their devices.
transaction_owner_exited_no_release(st, name) ==
  LET l == st.pending_connects
      keep == SelectSeq(l, LAMBDA a : Sender(st, a) # name)
      gone == SelectSeq(l, LAMBDA a : Sender(st, a) = name)
  IN [free_all(st, gone) EXCEPT !.pending_connects = keep]

\* A faulty variant of transaction_owner_exited, which frees the pending
\* connects of every owner.
transaction_owner_exited_everyone(st, name) ==
  [free_all(st, st.pending_connects) EXCEPT !.pending_connects = << >>]

transaction_owner_exited(st, name) ==
  owner_exited_loop(st, name, st.pending_connects, << >>)

\* A faulty variant of pending_connect_remove, which drops the name listener
\* and leaves the pending connect in the registry.
pending_connect_remove_keep(st, a) == name_listener_remove(st, Sender(st, a))

pending_connect_remove(st, a) ==
  LET st1 == name_listener_remove(st, Sender(st, a))
      st2 == [Log(st1, <<"remove", st.heap[a].msg.serial>>)
                EXCEPT !.pending_connects = g_slist_remove(@, a)]
  IN pending_connect_free(st2, a)

\* Faulty variants of open_notify: one that does not release the device of a
\* failed open, one that tests the cancellation before the error.
open_notify_no_release(st, a, fd, err) ==
  LET pc == st.heap[a]
  IN IF err # "0"
       THEN send_reply(st, pc.msg, "ConnectionAttemptFailed", err)
       ELSE IF pc.canceled = 1
         THEN send_reply(rfcomm_release(st, pc.msg, pc.id), pc.msg,
                         "Canceled", "Connection canceled")
         ELSE LET st1 == send_reply(st, pc.msg, "Return", pc.dev)
                  st2 == emit_signal(st1, pc.msg, "ServiceConnected", pc.dev)
              IN Log(st2, <<"port_add_listener", pc.msg.serial, pc.id>>)

\* A faulty variant of open_notify, which emits the signal before it replies.
open_notify_signal_first(st, a, fd, err) ==
  LET pc == st.heap[a]
  IN IF err # "0"
       THEN send_reply(rfcomm_release(st, pc.msg, pc.id), pc.msg,
                       "ConnectionAttemptFailed", err)
       ELSE IF pc.canceled = 1
         THEN send_reply(rfcomm_release(st, pc.msg, pc.id), pc.msg,
                         "Canceled", "Connection canceled")
         ELSE LET st1 == emit_signal(st, pc.msg, "ServiceConnected", pc.dev)
                  st2 == send_reply(st1, pc.msg, "Return", pc.dev)
                  st3 == Log(st2, <<"port_add_listener", pc.msg.serial, pc.id>>)
              IN IF pc.id \in DevIds /\ st3.devs[pc.id] # NoDev
                   THEN [st3 EXCEPT !.devs[pc.id].listener = TRUE]
                   ELSE st3

\* A faulty variant of open_notify, which does not look at the cancellation.
open_notify_ignores_cancel(st, a, fd, err) ==
  LET pc == st.heap[a]
  IN IF err # "0"
       THEN send_reply(rfcomm_release(st, pc.msg, pc.id), pc.msg,
                       "ConnectionAttemptFailed", err)
       ELSE LET st1 == send_reply(st, pc.msg, "Return", pc.dev)
                st2 == emit_signal(st1, pc.msg, "ServiceConnected", pc.dev)
                st3 == Log(st2, <<"port_add_listener", pc.msg.serial, pc.id>>)
            IN IF pc.id \in DevIds /\ st3.devs[pc.id] # NoDev
                 THEN [st3 EXCEPT !.devs[pc.id].listener = TRUE]
                 ELSE st3

open_notify(st, a, fd, err) ==
  LET pc == st.heap[a]
  IN IF err # "0"
       THEN send_reply(rfcomm_release(st, pc.msg, pc.id), pc.msg,
                       "ConnectionAttemptFailed", err)
       ELSE IF pc.canceled = 1
         THEN send_reply(rfcomm_release(st, pc.msg, pc.id), pc.msg,
                         "Canceled", "Connection canceled")
         ELSE LET st1 == send_reply(st, pc.msg, "Return", pc.dev)
                  st2 == emit_signal(st1, pc.msg, "ServiceConnected", pc.dev)
                  st3 == Log(st2, <<"port_add_listener", pc.msg.serial, pc.id>>)
              IN IF pc.id \in DevIds /\ st3.devs[pc.id] # NoDev
                   THEN [st3 EXCEPT !.devs[pc.id].listener = TRUE]
                   ELSE st3

\* open(pc->dev, O_RDONLY | O_NOCTTY), made while serving pc->msg: [st, fd],
\* fd = "fd" for a descriptor, "-1" for a failure.  pc->dev = NULL and the node
\* of a device that does not exist cannot be opened.  pc.opens, which the
\* program does not keep, counts the attempts to open a device path.
open(st, a, e) ==
  LET d == st.heap[a].dev
      ok == d # -1 /\ st.devs[d] # NoDev /\ e.open
      n == st.heap[a].opens + (IF d # -1 THEN 1 ELSE 0)
      st1 == Log(st, <<"open", st.heap[a].msg.serial, d, ok, n>>)
  IN [st |-> [st1 EXCEPT !.heap[a].opens = n],
      fd |-> IF ok THEN "fd" ELSE "-1"]

\* [st, again]: again is the gboolean returned, TRUE to keep the timeout
open_continue(st, a, e) ==
  IF ~g_slist_find(st.pending_connects, a)
    THEN [st |-> st, again |-> FALSE]
    ELSE LET r == open(st, a, e)
             st1 == [r.st EXCEPT !.heap[a].ntries = @ + 1]
         IN IF r.fd = "-1"
              THEN IF st1.heap[a].ntries >= MAX_OPEN_TRIES
                     THEN [st |-> pending_connect_remove(
                                    open_notify(st1, a, r.fd, "errno(open)"), a),
                           again |-> FALSE]
                     ELSE [st |-> st1, again |-> TRUE]
              ELSE [st |-> pending_connect_remove(
                             open_notify(r.st, a, r.fd, "0"), a),
                    again |-> FALSE]

\* [st, fd]: fd = "-EINPROGRESS" when the timeout was added
port_open(st, a, e) ==
  LET r == open(st, a, e)
  IN IF r.fd = "-1"
       THEN [st |-> [r.st EXCEPT !.timers[a] = @ + 1], fd |-> "-EINPROGRESS"]
       ELSE r

\* A faulty variant of rfcomm_connect_cb, which looks at the cancellation only
\* after it has created the device.
rfcomm_connect_cb_late_cancel(st, a, cond, e) ==
  LET pc == st.heap[a]
      fail(x) == pending_connect_remove(x, a)
  IN IF cond = "G_IO_NVAL"
       THEN fail(send_reply(st, pc.msg, "Canceled", "Connection canceled"))
     ELSE IF e.so # "ok" \/ ~e.bind \/ FreeDevIds(st) = {}
       THEN fail(send_reply(st, pc.msg, "ConnectionAttemptFailed", "errno"))
     ELSE LET id == LowestFree(st)
              st1 == Log(CreateDev(st, pc.msg, pc.channel, FALSE),
                         <<"bind", pc.msg.serial, id>>)
              st2 == [st1 EXCEPT !.heap[a].id = id, !.heap[a].dev = id]
              r == port_open(st2, a, e)
          IN IF pc.canceled = 1
               THEN fail(send_reply(st2, pc.msg, "Canceled", "Connection canceled"))
             ELSE IF r.fd = "-EINPROGRESS"
               THEN r.st
               ELSE fail(open_notify(r.st, a, r.fd, "0"))

\* the state after rfcomm_connect_cb(chan, cond, pc) (it always returns FALSE)
rfcomm_connect_cb(st, a, cond, e) ==
  LET pc == st.heap[a]
      fail(x) == pending_connect_remove(x, a)
  IN IF pc.canceled = 1
       THEN fail(send_reply(st, pc.msg, "Canceled", "Connection canceled"))
     ELSE IF cond = "G_IO_NVAL"
       THEN fail(send_reply(st, pc.msg, "Canceled", "Connection canceled"))
     ELSE IF e.so = "getsockopt"
       THEN fail(send_reply(st, pc.msg, "ConnectionAttemptFailed",
                            "errno(getsockopt)"))
     ELSE IF e.so = "so_error"
       THEN fail(send_reply(st, pc.msg, "ConnectionAttemptFailed", "SO_ERROR"))
     ELSE IF ~e.bind \/ FreeDevIds(st) = {}
       THEN fail(send_reply([st EXCEPT !.heap[a].id = -1], pc.msg,
                            "ConnectionAttemptFailed", "errno(ioctl)"))
     ELSE LET id == LowestFree(st)
              st1 == Log(CreateDev(st, pc.msg, pc.channel, FALSE),
                         <<"bind", pc.msg.serial, id>>)
              st2 == [st1 EXCEPT !.heap[a].id = id, !.heap[a].dev = id]
              r == port_open(st2, a, e)
          IN IF r.fd = "-EINPROGRESS"
               THEN r.st
               ELSE fail(open_notify(r.st, a, r.fd, "0"))

\* [st, err]: err = "0" for the return value 0, else the errno returned negated
rfcomm_connect(st, a, e) ==
  LET st0 == Log(st, <<"rfcomm_connect", st.heap[a].msg.serial,
                       st.heap[a].channel>>)
  IN
  IF e.sock = "socket"
    THEN [st |-> st0, err |-> "errno(socket)"]
  ELSE IF e.sock = "bind"
    THEN [st |-> st0, err |-> "errno(bind)"]
  ELSE LET st1 == Log(st0, <<"connect", st.heap[a].msg.serial,
                             st.heap[a].channel>>)
       IN IF e.sock = "connect"
            THEN [st |-> st1, err |-> "errno(connect)"]
          ELSE IF e.sock = "inprogress"
            THEN [st |-> [st1 EXCEPT !.watches[a] = @ + 1,
                                     !.heap[a].io_active = TRUE],
                  err |-> "0"]
          ELSE [st |-> rfcomm_connect_cb(st1, a, "G_IO_OUT", e), err |-> "0"]

\* [st, ret]: ret = -1 when the message could not be sent
get_record(st, a, handle, e) ==
  IF ~e.send
    THEN [st |-> st, ret |-> -1]
    ELSE [st |-> [Log(st, <<"get_record", st.heap[a].msg.serial, handle>>)
                    EXCEPT !.record_calls[a] = @ + 1],
          ret |-> 0]

get_handles(st, a, uuid, e) ==
  IF ~e.send
    THEN [st |-> st, ret |-> -1]
    ELSE [st |-> [Log(st, <<"get_handles", st.heap[a].msg.serial, uuid>>)
                    EXCEPT !.handles_calls[a] = @ + 1],
          ret |-> 0]

\* a faulty range test, which lets channel 31 through
ChannelOutOfRange_31(ch) == ch < 1 \/ ch > 31
\* the range test of record_reply on the channel of the record
ChannelOutOfRange(ch) == ch < 1 \/ ch > 30

\* the reply to GetRemoteServiceRecord arrives, data = a
record_reply(st, a, reply, e) ==
  IF ~g_slist_find(st.pending_connects, a)
    THEN st
    ELSE
      LET pc == st.heap[a]
          fail(x) == pending_connect_remove(x, a)
          not_supported == fail(send_reply(st, pc.msg, "NotSupported", ""))
      IN IF pc.canceled = 1
           THEN fail(send_reply(st, pc.msg, "Canceled", "Connection canceled"))
         ELSE IF reply.kind = "error"
           THEN IF reply.name = "org.bluez.Error.ConnectionAttemptFailed"
                  THEN fail(send_reply(st, pc.msg, "ConnectionAttemptFailed", "EIO"))
                  ELSE not_supported
         ELSE IF reply.kind # "record"
           THEN not_supported
         ELSE IF reply.len = 0
           THEN not_supported
         ELSE IF ~reply.pdu
           THEN not_supported
         ELSE IF reply.len # reply.scanned \/ reply.protos < 0
           THEN not_supported
         ELSE IF ChannelOutOfRange(reply.ch)
           THEN not_supported
         ELSE IF HasMember(st, a, "CreatePort")
           THEN IF ~e.bind \/ FreeDevIds(st) = {}
                  THEN fail(send_reply(st, pc.msg, "Failed", "errno(ioctl)"))
                  ELSE LET id == LowestFree(st)
                           st1 == Log(CreateDev(st, pc.msg, reply.ch, TRUE),
                                      <<"bind", pc.msg.serial, id>>)
                           st2 == Log(st1, <<"port_store", pc.msg.serial, id, reply.ch>>)
                           st3 == [st2 EXCEPT !.ports_paths = Append(@, id)]
                           st4 == send_reply(st3, pc.msg, "Return", id)
                       IN fail(emit_signal(st4, pc.msg, "PortCreated", id))
         ELSE LET r == rfcomm_connect([st EXCEPT !.heap[a].channel = reply.ch], a, e)
              IN IF r.err # "0"
                   THEN pending_connect_remove(
                          send_reply(r.st, pc.msg, "ConnectionAttemptFailed", r.err), a)
                   ELSE r.st

\* A faulty variant of handles_reply, which forgets the request when the
\* lookup is answered with an error.
handles_reply_forgets(st, a, reply, e) ==
  IF ~g_slist_find(st.pending_connects, a)
    THEN st
    ELSE
      LET pc == st.heap[a]
          fail(x) == pending_connect_remove(x, a)
          not_supported == fail(send_reply(st, pc.msg, "NotSupported", ""))
      IN IF pc.canceled = 1
           THEN fail(send_reply(st, pc.msg, "Canceled", "Connection canceled"))
         ELSE IF reply.kind = "error"
           THEN st
         ELSE IF reply.kind # "handles"
           THEN not_supported
         ELSE IF Len(reply.handles) = 0
           THEN not_supported
         ELSE LET r == get_record(st, a, reply.handles[1], e)
              IN IF r.ret < 0 THEN not_supported ELSE r.st

\* A faulty variant of handles_reply, which goes on to the next handle when
\* the record of the first cannot be asked for.
handles_reply_next_handle(st, a, reply, e) ==
  IF ~g_slist_find(st.pending_connects, a)
    THEN st
    ELSE
      LET pc == st.heap[a]
          fail(x) == pending_connect_remove(x, a)
          not_supported == fail(send_reply(st, pc.msg, "NotSupported", ""))
      IN IF pc.canceled = 1
           THEN fail(send_reply(st, pc.msg, "Canceled", "Connection canceled"))
         ELSE IF reply.kind = "error"
           THEN IF reply.name = "org.bluez.Error.ConnectionAttemptFailed"
                  THEN fail(send_reply(st, pc.msg, "ConnectionAttemptFailed", "EIO"))
                  ELSE not_supported
         ELSE IF reply.kind # "handles"
           THEN not_supported
         ELSE IF Len(reply.handles) = 0
           THEN not_supported
         ELSE LET r == get_record(st, a, reply.handles[1], e)
              IN IF r.ret < 0
                   THEN IF Len(reply.handles) > 1
                          THEN get_record(st, a, reply.handles[2], [e EXCEPT !.send = TRUE]).st
                          ELSE not_supported
                   ELSE r.st

\* the reply to GetRemoteServiceHandles arrives, data = a
handles_reply(st, a, reply, e) ==
  IF ~g_slist_find(st.pending_connects, a)
    THEN st
    ELSE
      LET pc == st.heap[a]
          fail(x) == pending_connect_remove(x, a)
          not_supported == fail(send_reply(st, pc.msg, "NotSupported", ""))
      IN IF pc.canceled = 1
           THEN fail(send_reply(st, pc.msg, "Canceled", "Connection canceled"))
         ELSE IF reply.kind = "error"
           THEN IF reply.name = "org.bluez.Error.ConnectionAttemptFailed"
                  THEN fail(send_reply(st, pc.msg, "ConnectionAttemptFailed", "EIO"))
                  ELSE not_supported
         ELSE IF reply.kind # "handles"
           THEN not_supported
         ELSE IF Len(reply.handles) = 0
           THEN not_supported
         ELSE LET r == get_record(st, a, reply.handles[1], e)
              IN IF r.ret < 0 THEN not_supported ELSE r.st

\* g_new0(struct pending_connect, 1) at address a, filled in for msg
NewPc(st, a, msg, bda, pattern) ==
  [st EXCEPT !.heap[a] =
     [msg |-> msg, bda |-> bda, pattern |-> pattern, channel |-> 0, id |-> -1,
      dev |-> -1, ntries |-> 0, canceled |-> 0, io_active |-> FALSE,
      opens |-> 0]]

\* A faulty variant of connect_service_from_devid, which looks every pattern up
\* as a UUID.
connect_service_lookup_always(st, msg, a, bda, pattern, e) ==
  IF find_pending_connect_by_pattern(st, bda, pattern) # NULL
    THEN send_reply(st, msg, "InProgress", "Connection in progress")
  ELSE IF ~e.adapter
    THEN send_reply(st, msg, "Failed", "Adapter not available")
  ELSE LET st0 == NewPc(st, a, msg, bda, pattern)
           r == get_handles(st0, a, <<"uuid128", pattern>>, e)
       IN IF r.ret < 0
            THEN send_reply(pending_connect_free(st0, a), msg, "NotSupported", "")
            ELSE name_listener_add(
                   [r.st EXCEPT !.pending_connects = Append(@, a)], msg.sender)

\* connect_service_from_devid, for the message msg, with the new pc at a
connect_service_from_devid(st, msg, a, bda, pattern, e) ==
  IF find_pending_connect_by_pattern(st, bda, pattern) # NULL
    THEN send_reply(st, msg, "InProgress", "Connection in progress")
  ELSE IF ~e.adapter
    THEN send_reply(st, msg, "Failed", "Adapter not available")
  ELSE
    LET st0 == NewPc(st, a, msg, bda, pattern)
        u == pattern2uuid128(pattern)
        l == pattern2long(pattern)
        append(x) == [x EXCEPT !.pending_connects = Append(@, a)]
        done(x) == name_listener_add(x, msg.sender)
        invalid(text) == send_reply(pending_connect_free(st0, a), msg,
                                    "InvalidArguments", text)
    IN IF u.err = "0"
         THEN LET r == get_handles(st0, a, u.uuid, e)
              IN IF r.ret < 0
                   THEN send_reply(pending_connect_free(st0, a), msg,
                                   "NotSupported", "")
                   ELSE done(append(r.st))
       ELSE IF l.err # "0"
         THEN invalid("invalid pattern")
       ELSE IF strncasecmp_eq(<<"0","x">>, pattern, 2)
         THEN IF LongLess(l.val, 65536)
                THEN invalid("invalid record handle")
                ELSE LET r == get_record(st0, a, ToUint32(l.val), e)
                     IN IF r.ret < 0
                          THEN send_reply(pending_connect_free(st0, a), msg,
                                          "NotSupported", "")
                          ELSE done(append(r.st))
       ELSE IF LongLess(l.val, 1) \/ LongGreater(l.val, 30)
         THEN invalid("invalid RFCOMM channel")
       ELSE LET st1 == [append(st0) EXCEPT !.heap[a].channel = ToUint8(l.val)]
                r == rfcomm_connect(st1, a, e)
            IN IF r.err # "0"
                 THEN send_reply(
                        pending_connect_free(
                          [r.st EXCEPT !.pending_connects = g_slist_remove(@, a)], a),
                        msg, "ConnectionAttemptFailed", r.err)
                 ELSE done(r.st)

\* create_port, for the message msg, with the new pc at a
create_port(st, msg, a, bda, pattern, e) ==
  IF find_pending_connect_by_pattern(st, bda, pattern) # NULL
    THEN send_reply(st, msg, "InProgress", "Connection in progress")
  ELSE IF ~e.adapter
    THEN send_reply(st, msg, "Failed", "Adapter not available")
  ELSE
    LET st0 == NewPc(st, a, msg, bda, pattern)
        u == pattern2uuid128(pattern)
        l == pattern2long(pattern)
        added(x) == name_listener_add(
                      [x EXCEPT !.pending_connects = Append(@, a)],
                      msg.sender)
        invalid(text) == send_reply(pending_connect_free(st0, a), msg,
                                    "InvalidArguments", text)
    IN IF u.err = "0"
         THEN LET r == get_handles(st0, a, u.uuid, e)
              IN IF r.ret < 0
                   THEN send_reply(pending_connect_free(st0, a), msg,
                                   "NotSupported", "")
                   ELSE added(r.st)
       ELSE IF l.err # "0"
         THEN invalid("invalid pattern")
       ELSE IF strncasecmp_eq(<<"0","x">>, pattern, 2)
         THEN IF LongLess(l.val, 65536)
                THEN invalid("invalid record handle")
                ELSE LET r == get_record(st0, a, ToUint32(l.val), e)
                     IN IF r.ret < 0
                          THEN send_reply(pending_connect_free(st0, a), msg,
                                          "NotSupported", "")
                          ELSE added(r.st)
       ELSE LET st1 == pending_connect_free(st0, a)
            IN IF LongLess(l.val, 1) \/ LongGreater(l.val, 30)
                 THEN send_reply(st1, msg, "InvalidArguments",
                                 "invalid RFCOMM channel")
               ELSE IF ~e.bind \/ FreeDevIds(st1) = {}
                 THEN send_reply(st1, msg, "Failed", "errno(ioctl)")
               ELSE LET id == LowestFree(st1)
                        ch == ToUint8(l.val)
                        st2 == Log(CreateDev(st1, msg, ch, TRUE), <<"bind", msg.serial, id>>)
                        st3 == Log(st2, <<"port_store", msg.serial, id, ch>>)
                        st4 == [st3 EXCEPT !.ports_paths = Append(@, id)]
                        st5 == send_reply(st4, msg, "Return", id)
                    IN emit_signal(st5, msg, "PortCreated", id)

(***************************************************************************)
(* The proxies.  A struct proxy is the user data of its D-Bus object; the   *)
(* main loop holds the watches: the accept watch of a listener, whose data  *)
(* is the proxy, and the two forward_data watches of an accepted            *)
(* connection, the data of each being the channel of the other.  A channel  *)
(* lives as long as its watch (the only reference to it) and closes its     *)
(* descriptor when it is freed.                                             *)
(***************************************************************************)
\* strncmp(s, t, n) == 0
strncmp_eq(s, t, n) ==
  \A i \in 1..n :
    (\A j \in 1..(i-1) : CharAt(s, j) # NUL) => CharAt(s, i) = CharAt(t, i)

\* the local addresses a client may name: a character device under /dev, a
\* socket file, a TCP port of the local host, a socket of the abstract
\* namespace, a regular file and a name that is nothing
AddrTty == <<"/","d","e","v","/","t">>
AddrSock == <<"/","s">>
AddrTcp == <<"l","o","c","a","l","h","o","s","t",":","5">>
AddrAbstract == <<"x","0","0","a">>
AddrFile == <<"/","f">>
AddrNone == <<"n">>
Addresses == {AddrTty, AddrSock, AddrTcp, AddrAbstract, AddrFile, AddrNone}

\* stat(address): the st_mode of the file of this name, "none" when stat fails
StatMode(address) ==
  IF address = AddrTty THEN "S_IFCHR"
  ELSE IF address = AddrSock THEN "S_IFSOCK"
  ELSE IF address = AddrFile THEN "S_IFREG"
  ELSE "none"

addr2type(address) ==
  IF StatMode(address) = "none"
    THEN IF strncmp_eq(<<"l","o","c","a","l","h","o","s","t",":">>, address, 10)
           THEN "TCP_SOCKET_PROXY"
         ELSE IF ~strncmp_eq(<<"x","0","0">>, address, 3)
           THEN "UNKNOWN_PROXY_TYPE"
         ELSE "UNIX_SOCKET_PROXY"
    ELSE IF StatMode(address) = "S_IFCHR"
              /\ strncmp_eq(<<"/","d","e","v","/">>, address, 4)
           THEN "TTY_PROXY"
         ELSE IF StatMode(address) = "S_IFSOCK"
           THEN "UNIX_SOCKET_PROXY"
         ELSE "UNKNOWN_PROXY_TYPE"

\* the UUIDs a client may name: one in the canonical form, the same without
\* the dashes, and the empty string
UuidNoDashes == SelectSeq(BASE_UUID, LAMBDA c : c # "-")
Uuids == {BASE_UUID, UuidNoDashes, << >>}

\* str2uuid(&uuid, string) == 0, for strings all of whose characters are
\* hexadecimal digits or dashes: 36 characters, the dashes in their places
\* and hexadecimal digits in all the others
str2uuid_ok(string) ==
  /\ Len(string) = 36
  /\ \A i \in 1..36 :
       IF i \in {9, 14, 19, 24}
         THEN string[i] = "-"
         ELSE DigitVal(string[i]) < 16

\* a struct termios, as far as the proxy sets it: the speed and the c_cflag
\* bits CSIZE, CSTOPB, PARENB, PARODD and CLOCAL | CREAD
Termios(speed, csize, cstopb, parenb, parodd, clocal) ==
  [speed |-> speed, csize |-> csize, cstopb |-> cstopb, parenb |-> parenb,
   parodd |-> parodd, clocal |-> clocal]
\* the termios g_new0 leaves, and the settings tcgetattr reads from the TTY
ZeroTermios == Termios("B0", 5, FALSE, FALSE, FALSE, FALSE)
SysTermios == Termios("B38400", 8, FALSE, FALSE, TRUE, TRUE)

\* g_new0(struct proxy, 1), filled in by proxy_tty_register,
\* proxy_socket_register or proxy_tcp_register
NewProxy(type, uuid128, address) ==
  [type |-> type, uuid128 |-> uuid128, address |-> address,
   dst |-> "00:00:00:00:00:00", channel |-> 0, record_id |-> 0,
   listen_watch |-> 0, rfcomm_watch |-> 0, local_watch |-> 0,
   sys_ti |-> IF type = "TTY_PROXY" THEN SysTermios ELSE ZeroTermios,
   proxy_ti |-> IF type = "TTY_PROXY" THEN SysTermios ELSE ZeroTermios]

\* [st, ret]: the object is registered under the path numbered sk_counter
register_proxy_object(st, prx, e) ==
  LET n == st.sk_counter
      st1 == [st EXCEPT !.sk_counter = n + 1]
  IN IF ~e.object
       THEN [st |-> st1, ret |-> -1, path |-> n]
       ELSE [st |-> [st1 EXCEPT !.objects[n] = prx,
                                !.proxies_paths = Append(@, n)],
             ret |-> 0, path |-> n]

\* proxy_tty_register (which first opens the TTY to read its settings),
\* proxy_socket_register and proxy_tcp_register, as create_proxy calls them
proxy_register(st, type, uuid128, address, e) ==
  IF type = "TTY_PROXY" /\ ~e.open
    THEN [st |-> st, ret |-> -22, path |-> -1]
    ELSE register_proxy_object(st, NewProxy(type, uuid128, address), e)

\* A faulty variant of proxy_find, which finds nothing.
proxy_find_none(st, address) == FALSE

\* g_slist_find_custom(proxies_paths, address, proxycmp) # NULL; a path
\* without an object compares unequal
proxy_find(st, address) ==
  \E i \in 1..Len(st.proxies_paths) :
    /\ st.objects[st.proxies_paths[i]] # NoPrx
    /\ st.objects[st.proxies_paths[i]].address = address

create_proxy(st, msg, uuid128, address, e) ==
  IF ~str2uuid_ok(uuid128)
    THEN send_reply(st, msg, "InvalidArguments", "Invalid UUID")
  ELSE IF addr2type(address) = "UNKNOWN_PROXY_TYPE"
    THEN send_reply(st, msg, "InvalidArguments", "Invalid address")
  ELSE IF proxy_find(st, address)
    THEN send_reply(st, msg, "AlreadyExists", "Proxy already exists")
  ELSE IF ~e.adapter
    THEN send_reply(st, msg, "Failed", "Adapter not available")
  ELSE LET r == proxy_register(st, addr2type(address), uuid128, address, e)
       IN IF r.ret < 0
            THEN send_reply(r.st, msg, "Failed", "Create object path failed")
            ELSE send_reply(emit_signal(r.st, msg, "ProxyCreated", r.path),
                            msg, "Return", r.path)

\* the RFCOMM channels a listening socket can be bound to, and those that the
\* listening sockets of the proxies hold
RfcommChannels == 1..30
ChannelsInUse(st) ==
  {st.sources[i].channel : i \in {j \in WatchIds : st.sources[j].kind = "listen"}}

\* rfcomm_listen(&prx->src, &prx->channel, 0) for the proxy at path p:
\* [st, sk], sk = -1 when it fails.  Channel 0 asks the kernel for the first
\* free channel; the channel bound is stored in prx->channel.
rfcomm_listen(st, p, e) ==
  LET ch == st.objects[p].channel
      free == RfcommChannels \ ChannelsInUse(st)
      bound == IF ch = 0 THEN CHOOSE c \in free : \A d \in free : c <= d ELSE ch
      closed == Log(st, <<"close", 0, "listen", p>>)
  IN IF e.listen = "socket"
       THEN [st |-> st, sk |-> -1, channel |-> 0]
     ELSE IF e.listen = "bind" \/ (ch # 0 /\ ch \in ChannelsInUse(st))
       THEN [st |-> closed, sk |-> -1, channel |-> 0]
     ELSE IF e.listen = "getsockname"
       THEN [st |-> closed, sk |-> -1, channel |-> 0]
     ELSE [st |-> [Log(st, <<"listen", 0, p, bound>>)
                     EXCEPT !.objects[p].channel = bound],
           sk |-> 0, channel |-> bound]

\* add_proxy_record: [st, rec_id], rec_id = 0 when the record was not added
add_proxy_record(st, p, e) ==
  LET free == RecordIds \ st.sdp_records
      rec == CHOOSE r \in free : \A q \in free : r <= q
  IN IF ~e.record \/ free = {}
       THEN [st |-> st, rec_id |-> 0]
       ELSE [st |-> [Log(st, <<"add_record", 0, p, rec>>)
                       EXCEPT !.sdp_records = @ \cup {rec}],
             rec_id |-> rec]

\* remove_proxy_record(connection, rec_id)
remove_proxy_record(st, rec_id, e) ==
  LET st1 == Log(st, <<"remove_record", 0, rec_id>>)
  IN IF e.unpublish THEN [st1 EXCEPT !.sdp_records = @ \ {rec_id}] ELSE st1

\* g_source_remove(id) of a forward_data watch: the watch, if the main loop
\* still has it, is destroyed and its channel with it
g_source_remove(st, id) ==
  IF id \in WatchIds /\ st.sources[id] # NoSrc
    THEN [Log(st, <<"source_remove", 0, id>>) EXCEPT !.sources[id] = NoSrc]
    ELSE st

\* A faulty variant of listen_watch_notify, which leaves the record id.
listen_watch_notify_keep_record(st, p, e) ==
  LET prx == st.objects[p]
      st1 == g_source_remove(g_source_remove(st, prx.rfcomm_watch),
                             prx.local_watch)
  IN [remove_proxy_record(st1, prx.record_id, e)
        EXCEPT !.objects[p].listen_watch = 0,
               !.objects[p].rfcomm_watch = 0,
               !.objects[p].local_watch = 0]

listen_watch_notify(st, p, e) ==
  LET prx == st.objects[p]
      st1 == IF prx.rfcomm_watch # 0
               THEN g_source_remove(st, prx.rfcomm_watch) ELSE st
      st2 == IF prx.local_watch # 0
               THEN g_source_remove(st1, prx.local_watch) ELSE st1
  IN [remove_proxy_record(st2, prx.record_id, e)
        EXCEPT !.objects[p].listen_watch = 0,
               !.objects[p].rfcomm_watch = 0,
               !.objects[p].local_watch = 0,
               !.objects[p].record_id = 0]

\* the accept watch id is destroyed (g_source_remove, or its callback returned
\* FALSE): its channel is freed, which closes the listening socket, and its
\* destroy notification listen_watch_notify runs
listen_watch_destroy(st, id, e) ==
  LET p == st.sources[id].prx
      st1 == Log(st, <<"close", 0, "listen", p>>)
  IN listen_watch_notify([st1 EXCEPT !.sources[id] = NoSrc], p, e)

\* A faulty variant of proxy_enable, which does not look at listen_watch.
proxy_enable_again(st, p, msg, e) ==
  LET r == rfcomm_listen(st, p, e)
      a == add_proxy_record(r.st, p, e)
      id == st.next_id
  IN IF r.sk < 0 \/ a.rec_id = 0
       THEN send_reply(st, msg, "Failed", "strerror(errno)")
       ELSE send_reply(
              [a.st EXCEPT !.objects[p].record_id = a.rec_id,
                           !.objects[p].listen_watch = id,
                           !.sources[id] = [kind |-> "listen", prx |-> p,
                                            channel |-> r.channel,
                                            fd_open |-> TRUE],
                           !.next_id = id + 1],
              msg, "Return", "")

\* A faulty variant of proxy_enable, which keeps the listener when the record
\* cannot be published.
proxy_enable_keep_listener(st, p, msg, e) ==
  LET r == rfcomm_listen(st, p, e)
      a == add_proxy_record(r.st, p, e)
      id == st.next_id
      st1 == [a.st EXCEPT !.objects[p].record_id = a.rec_id,
                          !.objects[p].listen_watch = id,
                          !.sources[id] = [kind |-> "listen", prx |-> p,
                                           channel |-> r.channel,
                                           fd_open |-> TRUE],
                          !.next_id = id + 1]
  IN IF st.objects[p].listen_watch # 0
       THEN send_reply(st, msg, "Failed", "Already enabled")
     ELSE IF r.sk < 0
       THEN send_reply(r.st, msg, "Failed", "strerror(errno)")
     ELSE IF a.rec_id = 0
       THEN send_reply(st1, msg, "Failed", "Service registration failed")
     ELSE send_reply(st1, msg, "Return", "")

proxy_enable(st, p, msg, e) ==
  IF st.objects[p].listen_watch # 0
    THEN send_reply(st, msg, "Failed", "Already enabled")
  ELSE LET r == rfcomm_listen(st, p, e)
       IN IF r.sk < 0
            THEN send_reply(r.st, msg, "Failed", "strerror(errno)")
          ELSE LET a == add_proxy_record(r.st, p, e)
                   st1 == [a.st EXCEPT !.objects[p].record_id = a.rec_id]
                   id == st.next_id
               IN IF a.rec_id = 0
                    THEN send_reply(Log(st1, <<"close", 0, "listen", p>>), msg,
                                    "Failed", "Service registration failed")
                    ELSE send_reply(
                           [Log(st1, <<"add_watch", 0, id, p>>)
                              EXCEPT !.objects[p].listen_watch = id,
                                     !.sources[id] =
                                       [kind |-> "listen", prx |-> p,
                                        channel |-> r.channel,
                                        fd_open |-> TRUE],
                                     !.next_id = id + 1],
                           msg, "Return", "")

proxy_disable(st, p, msg, e) ==
  IF st.objects[p].listen_watch = 0
    THEN send_reply(st, msg, "Failed", "Not enabled")
    ELSE send_reply(listen_watch_destroy(st, st.objects[p].listen_watch, e),
                    msg, "Return", "")

\* atoi of the string from position i on, for strings without sign or space:
\* the value of its leading decimal digits
RECURSIVE atoi_from(_, _, _)
atoi_from(s, i, acc) ==
  IF DigitVal(CharAt(s, i)) >= 10
    THEN acc
    ELSE atoi_from(s, i + 1, acc * 10 + DigitVal(CharAt(s, i)))

\* tcp_socket_connect's check of the address: it begins with localhost and
\* the number after the first colon, as an unsigned short, is not 0
tcp_address_ok(address) ==
  /\ strncmp_eq(address, <<"l","o","c","a","l","h","o","s","t">>, 9)
  /\ LET colon == CHOOSE i \in 1..Len(address) :
                    address[i] = ":" /\ \A j \in 1..(i-1) : address[j] # ":"
     IN atoi_from(address, colon + 1, 0) % 65536 # 0

\* unix_socket_connect, tty_open with the proxy's settings, or
\* tcp_socket_connect: [st, lsk], lsk = -1 when the local side is not opened
local_connect(st, p, e) ==
  LET prx == st.objects[p]
      st1 == IF prx.type = "TTY_PROXY"
               THEN Log(st, <<"tty_open", 0, p, prx.proxy_ti>>)
               ELSE st
  IN IF prx.type = "TCP_SOCKET_PROXY" /\ ~tcp_address_ok(prx.address)
       THEN [st |-> st, lsk |-> -1]
       ELSE [st |-> st1, lsk |-> IF e.local THEN 0 ELSE -1]

\* the result of one g_io_channel_read: an error, or the bytes read (none at
\* the end of the stream); and of one g_io_channel_write: an error, or the
\* number of bytes the channel took
ReadError == [err |-> TRUE, data |-> << >>]
ReadOk(data) == [err |-> FALSE, data |-> data]
WriteError == [err |-> TRUE, n |-> 0]
WriteOk(n) == [err |-> FALSE, n |-> n]
\* the results the calls of one run meet, in order; when reads is used up the
\* next read finds nothing more, when writes is used up the next write takes
\* all it is offered
NextRead(reads) == IF reads = << >> THEN ReadOk(<< >>) ELSE Head(reads)
NextWrite(writes, size) == IF writes = << >> THEN WriteOk(size) ELSE Head(writes)
Rest(results) == IF results = << >> THEN << >> ELSE Tail(results)

\* the loop of channel_write(dest, buf, size) called by the watch id, from
\* wbytes on: [st, err, writes], err whether an error is returned, writes the
\* results left.  A write to a channel whose descriptor is closed fails; a
\* write to a channel that was freed is a use of freed memory.
RECURSIVE channel_write_from(_, _, _, _, _, _, _)
channel_write_from(st, id, dest, buf, wbytes, writes, e) ==
  IF wbytes >= Len(buf)
    THEN [st |-> st, err |-> FALSE, writes |-> writes]
  ELSE IF st.sources[dest] = NoSrc
    THEN [st |-> [st EXCEPT !.crashed = (e.uaf = "crash")], err |-> TRUE,
          writes |-> writes]
  ELSE LET offered == SubSeq(buf, wbytes + 1, Len(buf))
           res == IF st.sources[dest].fd_open
                    THEN NextWrite(writes, Len(offered))
                    ELSE WriteError
           written == IF res.n < Len(offered) THEN res.n ELSE Len(offered)
           st1 == Log(st, <<"write", 0, id, offered, written, res.err>>)
       IN IF res.err
            THEN [st |-> st1, err |-> TRUE, writes |-> Rest(writes)]
            ELSE channel_write_from(st1, id, dest, buf, wbytes + written,
                                    Rest(writes), e)

\* A faulty variant of channel_write, which offers the chunk from its first
\* byte again after a partial write.
RECURSIVE channel_write_restart_from(_, _, _, _, _, _, _)
channel_write_restart_from(st, id, dest, buf, wbytes, writes, e) ==
  IF wbytes >= Len(buf)
    THEN [st |-> st, err |-> FALSE, writes |-> writes]
  ELSE IF st.sources[dest] = NoSrc
    THEN [st |-> [st EXCEPT !.crashed = (e.uaf = "crash")], err |-> TRUE,
          writes |-> writes]
  ELSE LET res == IF st.sources[dest].fd_open
                    THEN NextWrite(writes, Len(buf) - wbytes)
                    ELSE WriteError
           written == IF res.n < Len(buf) - wbytes THEN res.n ELSE Len(buf) - wbytes
           st1 == Log(st, <<"write", 0, id, buf, written, res.err>>)
       IN IF res.err
            THEN [st |-> st1, err |-> TRUE, writes |-> Rest(writes)]
            ELSE channel_write_restart_from(st1, id, dest, buf, wbytes + written,
                                            Rest(writes), e)
channel_write_restart(st, id, dest, buf, writes, e) ==
  channel_write_restart_from(st, id, dest, buf, 0, writes, e)

channel_write(st, id, dest, buf, writes, e) ==
  channel_write_from(st, id, dest, buf, 0, writes, e)

\* the loop of forward_data on G_IO_HUP or G_IO_ERR, which forwards what can
\* still be read
RECURSIVE forward_remaining(_, _, _, _, _, _)
forward_remaining(st, id, dest, reads, writes, e) ==
  LET rd == NextRead(reads)
      st1 == Log(st, <<"read", 0, id, rd.data, rd.err>>)
  IN IF rd.err \/ Len(rd.data) = 0
       THEN st1
       ELSE LET w == channel_write(st1, id, dest, rd.data, writes, e)
            IN IF w.err
                 THEN w.st
                 ELSE forward_remaining(w.st, id, dest, Rest(reads), w.writes, e)

\* forward_data(chan, cond, dest) of the watch id, with what follows when it
\* returns FALSE: the watch is destroyed and its channel chan freed.  dest is
\* the channel of the watch st.sources[id].dest; using it after that watch
\* is gone is a use of freed memory.
forward_data(st, id, cond, e) ==
  LET dest == st.sources[id].dest
      stopped(x) == [Log(x, <<"forward_stop", 0, id>>) EXCEPT !.sources[id] = NoSrc]
  IN IF cond = "G_IO_NVAL"
       THEN stopped(st)
     ELSE IF cond = "G_IO_HUP"
       THEN LET st1 == forward_remaining(st, id, dest, e.reads, e.writes, e)
            IN IF st.sources[dest] = NoSrc
                 THEN [stopped(st1) EXCEPT !.crashed = (e.uaf = "crash")]
                 ELSE [stopped(Log(st1, <<"close", 0, "channel", dest>>))
                         EXCEPT !.sources[dest].fd_open = FALSE]
     ELSE LET rd == NextRead(e.reads)
              st1 == Log(st, <<"read", 0, id, rd.data, rd.err>>)
          IN IF rd.err
               THEN stopped(st1)
               ELSE LET w == channel_write(st1, id, dest, rd.data, e.writes, e)
                    IN IF w.err THEN stopped(w.st) ELSE w.st

\* A faulty variant of connect_event, which gives up listening when the local
\* end cannot be opened.
connect_event_gives_up(st, id, cond, e) ==
  LET p == st.sources[id].prx
      st1 == [Log(st, <<"accept", 0, p, e.peer>>) EXCEPT !.objects[p].dst = e.peer]
      r == local_connect(st1, p, e)
      w == st.next_id
  IN IF cond # "G_IO_IN"
       THEN listen_watch_destroy(st, id, e)
     ELSE IF ~e.accept
       THEN st
     ELSE IF r.lsk < 0
       THEN listen_watch_destroy(Log(r.st, <<"close", 0, "rfcomm", p>>), id, e)
     ELSE [Log(r.st, <<"add_watch", 0, w, p>>)
             EXCEPT !.sources[w] = [kind |-> "rfcomm", prx |-> p,
                                    dest |-> w + 1, fd_open |-> TRUE],
                    !.sources[w + 1] = [kind |-> "local", prx |-> p,
                                        dest |-> w, fd_open |-> TRUE],
                    !.objects[p].rfcomm_watch = w,
                    !.objects[p].local_watch = w + 1,
                    !.next_id = w + 2]

\* connect_event(chan, cond, prx) of the accept watch id, with what follows
\* when it returns FALSE: the watch is destroyed
connect_event(st, id, cond, e) ==
  LET p == st.sources[id].prx
  IN IF cond = "G_IO_NVAL"
       THEN listen_watch_destroy(st, id, e)
     ELSE IF cond = "G_IO_HUP"
       THEN listen_watch_destroy(st, id, e)
     ELSE IF ~e.accept
       THEN st
     ELSE LET st1 == [Log(st, <<"accept", 0, p, e.peer>>)
                        EXCEPT !.objects[p].dst = e.peer]
              r == local_connect(st1, p, e)
              w == st.next_id
          IN IF r.lsk < 0
               THEN Log(r.st, <<"close", 0, "rfcomm", p>>)
               ELSE [Log(r.st, <<"add_watch", 0, w, p>>)
                       EXCEPT !.sources[w] = [kind |-> "rfcomm", prx |-> p,
                                              dest |-> w + 1, fd_open |-> TRUE],
                              !.sources[w + 1] = [kind |-> "local", prx |-> p,
                                                  dest |-> w, fd_open |-> TRUE],
                              !.objects[p].rfcomm_watch = w,
                              !.objects[p].local_watch = w + 1,
                              !.next_id = w + 2]

\* the dictionary proxy_get_info replies with: a sequence of <<key, value>>
proxy_info(prx) ==
  << <<"uuid", prx.uuid128>>, <<"address", prx.address>> >>
  \o (IF prx.channel # 0 THEN << <<"channel", prx.channel>> >> ELSE << >>)
  \o << <<"enabled", prx.listen_watch # 0>>,
        <<"connected", prx.rfcomm_watch # 0>> >>
  \o (IF prx.rfcomm_watch # 0 THEN << <<"address", prx.dst>> >> ELSE << >>)

proxy_get_info(st, p, msg) ==
  send_reply(st, msg, "Return", proxy_info(st.objects[p]))

\* the table supported_speed[]: the rates str2speed knows; the speed_t of a
\* rate is written as the rate, B0 as "0"
supported_speed ==
  {"50", "300", "600", "1200", "1800", "2400", "4800", "9600", "19200",
   "38400", "57600", "115200"}
str2speed(str) == IF str \in supported_speed THEN str ELSE "0"

\* set_parity, set_databits, set_stopbits: [ret, ctrl]
set_parity(str, ctrl) ==
  IF strcasecmp_eq(<<"e","v","e","n">>, str)
    THEN [ret |-> 0, ctrl |-> [ctrl EXCEPT !.parenb = TRUE, !.parodd = FALSE]]
  ELSE IF strcasecmp_eq(<<"o","d","d">>, str)
    THEN [ret |-> 0, ctrl |-> [ctrl EXCEPT !.parenb = TRUE, !.parodd = TRUE]]
  ELSE IF strcasecmp_eq(<<"m","a","r","k">>, str)
    THEN [ret |-> 0, ctrl |-> [ctrl EXCEPT !.parenb = TRUE]]
  ELSE IF \/ strcasecmp_eq(<<"n","o","n","e">>, str)
          \/ strcasecmp_eq(<<"s","p","a","c","e">>, str)
    THEN [ret |-> 0, ctrl |-> [ctrl EXCEPT !.parenb = FALSE]]
  ELSE [ret |-> -1, ctrl |-> ctrl]

set_databits(databits, ctrl) ==
  IF databits < 5 \/ databits > 8
    THEN [ret |-> -22, ctrl |-> ctrl]
    ELSE [ret |-> 0, ctrl |-> [ctrl EXCEPT !.csize = databits]]

set_stopbits(stopbits, ctrl) ==
  IF stopbits = 1 THEN [ret |-> 0, ctrl |-> [ctrl EXCEPT !.cstopb = FALSE]]
  ELSE IF stopbits = 2 THEN [ret |-> 0, ctrl |-> [ctrl EXCEPT !.cstopb = TRUE]]
  ELSE [ret |-> -22, ctrl |-> ctrl]

\* a = [rate, databits, stopbits, parity], the arguments of the call
proxy_set_serial_params(st, p, msg, a) ==
  IF st.objects[p].local_watch # 0
    THEN send_reply(st, msg, "Failed", "Not allowed")
  ELSE IF str2speed(a.rate) = "0"
    THEN send_reply(st, msg, "InvalidArguments", "Invalid baud rate")
  ELSE LET d == set_databits(a.databits, st.objects[p].proxy_ti)
           s == set_stopbits(a.stopbits, d.ctrl)
           y == set_parity(a.parity, s.ctrl)
       IN IF d.ret < 0
            THEN send_reply(st, msg, "InvalidArguments", "Invalid data bits")
          ELSE IF s.ret < 0
            THEN send_reply(st, msg, "InvalidArguments", "Invalid stop bits")
          ELSE IF y.ret < 0
            THEN send_reply(st, msg, "InvalidArguments", "Invalid parity")
          ELSE send_reply(
                 [st EXCEPT !.objects[p].proxy_ti =
                    [y.ctrl EXCEPT !.clocal = TRUE,
                                   !.speed = str2speed(a.rate)]],
                 msg, "Return", "")

\* proxy_handler_unregister(conn, prx) for the object at path p
proxy_handler_unregister(st, p, e) ==
  LET prx == st.objects[p]
      st1 == IF prx.type = "TTY_PROXY"
               THEN Log(st, <<"tty_restore", 0, p, prx.sys_ti>>) ELSE st
      st2 == IF prx.listen_watch # 0
               THEN listen_watch_destroy(st1, prx.listen_watch, e) ELSE st1
  IN [Log(st2, <<"proxy_free", 0, p>>) EXCEPT !.objects[p] = NoPrx]

\* remove_proxy for the path numbered path
remove_proxy(st, msg, path, e) ==
  IF ~g_slist_find(st.proxies_paths, path)
    THEN send_reply(st, msg, "DoesNotExist", "Invalid proxy path")
    ELSE LET st1 == IF st.objects[path] # NoPrx
                      THEN Log(st, <<"proxy_delete", 0, path>>) ELSE st
             st2 == [st1 EXCEPT !.proxies_paths = g_slist_remove(@, path)]
             st3 == IF st2.objects[path] # NoPrx
                      THEN proxy_handler_unregister(st2, path, e) ELSE st2
         IN send_reply(emit_signal(st3, msg, "ProxyRemoved", path),
                       msg, "Return", "")

\* the loop of manager_unregister that destroys the object paths of the
\* serial hierarchy, over the set of proxy paths ps
RECURSIVE destroy_proxy_objects(_, _, _)
destroy_proxy_objects(st, ps, e) ==
  IF ps = {} THEN st
    ELSE LET p == CHOOSE x \in ps : \A y \in ps : x <= y
         IN destroy_proxy_objects(
              IF st.objects[p] # NoPrx
                THEN proxy_handler_unregister(st, p, e) ELSE st,
              ps \ {p}, e)

\* the loop of manager_unregister over proxies_paths: proxy_path_free stores
\* the entry of every path that has an object
RECURSIVE store_proxies(_, _)
store_proxies(st, l) ==
  IF l = << >> THEN st
    ELSE store_proxies(IF st.objects[Head(l)] # NoPrx
                         THEN Log(st, <<"proxy_store", 0, Head(l)>>) ELSE st,
                       Tail(l))

manager_unregister(st, e) ==
  LET st1 == [free_all(st, st.pending_connects) EXCEPT !.pending_connects = << >>]
      st2 == [store_proxies(st1, st1.proxies_paths)
                EXCEPT !.proxies_paths = << >>, !.ports_paths = << >>]
  IN destroy_proxy_objects(st2, ProxyPaths, e)

(***************************************************************************)
(* The actions: the method calls, the callbacks the main loop dispatches,   *)
(* the exit of a requester and the unregistration of the manager.           *)
(***************************************************************************)
\* the system-call outcomes a handler can meet
EnvOk == Env(TRUE, TRUE, "inprogress", "ok", TRUE, TRUE)
EnvsSend == { EnvOk, [EnvOk EXCEPT !.send = FALSE] }
EnvsBind == { EnvOk, [EnvOk EXCEPT !.bind = FALSE] }
EnvsCb ==
  { [EnvOk EXCEPT !.so = so] : so \in {"getsockopt", "so_error"} }
  \cup EnvsBind \cup { [EnvOk EXCEPT !.open = FALSE] }
EnvsConnect ==
  { [EnvOk EXCEPT !.sock = sock] : sock \in {"socket", "bind", "connect"} }
  \cup { [e EXCEPT !.sock = sock] :
           e \in EnvsCb, sock \in {"inprogress", "connected"} }
EnvsCall == { [EnvOk EXCEPT !.adapter = FALSE] } \cup EnvsSend
\* of the runs with several requests: every system call succeeds, or the
\* connect fails or succeeds at once, or the device node cannot be opened yet
FewEnvs ==
  { EnvOk, [EnvOk EXCEPT !.open = FALSE], [EnvOk EXCEPT !.sock = "connect"],
    [EnvOk EXCEPT !.sock = "connected", !.open = FALSE] }

\* the system-call outcomes a handler of the proxies can meet:
\*   adapter   whether an adapter is found
\*   object    whether the D-Bus object path can be created
\*   open      whether the TTY can be opened to read its settings
\*   listen    rfcomm_listen: "socket" or "bind" or "getsockname" fails, "ok"
\*   record    whether AddServiceRecord succeeds
\*   unpublish whether RemoveServiceRecord succeeds
\*   accept    whether accept() succeeds, and peer, the address it reports
\*   local     whether the local side can be opened or connected
\*   reads, writes   the results of the reads and writes of forward_data
\*   uaf       what a use of a freed channel does: "crash" or "nothing"
ProxyEnvOk ==
  [adapter |-> TRUE, object |-> TRUE, open |-> TRUE, listen |-> "ok",
   record |-> TRUE, unpublish |-> TRUE, accept |-> TRUE, local |-> TRUE,
   peer |-> "p1", reads |-> <<ReadOk(<<1>>)>>, writes |-> << >>,
   uaf |-> "crash"]
EnvsCreate ==
  { ProxyEnvOk, [ProxyEnvOk EXCEPT !.adapter = FALSE],
    [ProxyEnvOk EXCEPT !.object = FALSE], [ProxyEnvOk EXCEPT !.open = FALSE] }
EnvsUnpublish == { ProxyEnvOk, [ProxyEnvOk EXCEPT !.unpublish = FALSE] }
EnvsEnable ==
  { [ProxyEnvOk EXCEPT !.listen = l] : l \in {"ok", "socket", "bind", "getsockname"} }
  \cup { [ProxyEnvOk EXCEPT !.record = FALSE] }
EnvsForward ==
  { [ProxyEnvOk EXCEPT !.reads = <<ReadError>>],
    [ProxyEnvOk EXCEPT !.writes = <<WriteError>>] }
  \cup { [ProxyEnvOk EXCEPT !.uaf = u] : u \in {"crash", "nothing"} }

Init ==
  /\ heap = [a \in Addrs |-> NoPc]
  /\ pending_connects = << >>
  /\ handles_calls = [a \in Addrs |-> 0]
  /\ record_calls = [a \in Addrs |-> 0]
  /\ timers = [a \in Addrs |-> 0]
  /\ watches = [a \in Addrs |-> 0]
  /\ devs = [d \in DevIds |-> NoDev]
  /\ ports_paths = << >>
  /\ listeners = [r \in Requesters |-> 0]
  /\ nmsgs = 0
  /\ status = "running"
  /\ replies = [s \in Serials |-> 0]
  /\ proxies_paths = << >>
  /\ sk_counter = 0
  /\ objects = [p \in ProxyPaths |-> NoPrx]
  /\ sources = [i \in WatchIds |-> NoSrc]
  /\ next_id = 1
  /\ sdp_records = {}
  /\ out = << >>

\* the state with the method call msg received
Received(msg, bda, pattern) ==
  [State(<<"call", msg.member, msg.serial, bda, pattern>>)
     EXCEPT !.nmsgs = msg.serial]

\* a heap cell no pending connect was ever in: nothing points to it
Fresh(a) ==
  /\ heap[a] = NoPc
  /\ handles_calls[a] = 0 /\ record_calls[a] = 0
  /\ timers[a] = 0 /\ watches[a] = 0

\* a method call can be received whose pending connect g_new0 would put at a:
\* any free cell, the lowest of those nothing points to (which cannot be told
\* apart)
CanReceive(a) ==
  /\ status = "running"
  /\ nmsgs < MaxReq
  /\ heap[a] = NoPc
  /\ \A b \in Addrs : b < a /\ Fresh(b) => ~Fresh(a)

\* connect_service: dev_id is hci_get_route(NULL)
ConnectService(sender, a, bda, pattern, e) ==
  /\ CanReceive(a)
  /\ LET msg == Message(nmsgs + 1, sender, "ConnectService")
     IN Commit(connect_service_from_devid(Received(msg, bda, pattern),
                                          msg, a, bda, pattern, e))
  /\ UNCHANGED status

\* connect_service_from_adapter: dev_id is hci_devid(adapter)
ConnectServiceFromAdapter(sender, a, bda, pattern, e) ==
  /\ CanReceive(a)
  /\ LET msg == Message(nmsgs + 1, sender, "ConnectServiceFromAdapter")
     IN Commit(connect_service_from_devid(Received(msg, bda, pattern),
                                          msg, a, bda, pattern, e))
  /\ UNCHANGED status

CreatePort(sender, a, bda, pattern, e) ==
  /\ CanReceive(a)
  /\ LET msg == Message(nmsgs + 1, sender, "CreatePort")
     IN Commit(create_port(Received(msg, bda, pattern), msg, a, bda, pattern, e))
  /\ UNCHANGED status

\* A faulty variant of cancel_connect_service, which ends the request at once.
cancel_connect_service_at_once(st, msg, bda, pattern) ==
  LET a == find_pending_connect_by_pattern(st, bda, pattern)
  IN IF a = NULL
       THEN send_reply(st, msg, "DoesNotExist", "No such connection request")
       ELSE send_reply(
              pending_connect_remove(
                send_reply(st, st.heap[a].msg, "Canceled", "Connection canceled"),
                a),
              msg, "Return", "")

\* cancel_connect_service, answering the method call msg
cancel_connect_service(st, msg, bda, pattern) ==
  LET a == find_pending_connect_by_pattern(st, bda, pattern)
  IN IF a = NULL
       THEN send_reply(st, msg, "DoesNotExist", "No such connection request")
       ELSE send_reply([st EXCEPT !.heap[a].canceled = 1], msg, "Return", "")

CancelConnectService(bda, pattern) ==
  /\ status = "running"
  /\ Commit(cancel_connect_service(
              State(<<"call", "CancelConnectService", 0, bda, pattern>>),
              Message(0, "", "CancelConnectService"), bda, pattern))
  /\ UNCHANGED status

HandlesReply(a, reply, e) ==
  /\ status # "crashed"
  /\ handles_calls[a] > 0
  /\ Commit(handles_reply(
              [State(<<"handles_reply", a, reply>>)
                 EXCEPT !.handles_calls[a] = @ - 1], a, reply, e))
  /\ UNCHANGED status

RecordReply(a, reply, e) ==
  /\ status # "crashed"
  /\ record_calls[a] > 0
  /\ Commit(record_reply(
              [State(<<"record_reply", a, reply>>)
                 EXCEPT !.record_calls[a] = @ - 1], a, reply, e))
  /\ UNCHANGED status

\* a timeout added by port_open expires
OpenTimeout(a, e) ==
  /\ status # "crashed"
  /\ timers[a] > 0
  /\ LET r == open_continue(State(<<"open_continue", a>>), a, e)
     IN Commit(IF r.again THEN r.st ELSE [r.st EXCEPT !.timers[a] = @ - 1])
  /\ UNCHANGED status

\* the watch whose id is in pc->io_id fires
ConnectWatch(a, cond, e) ==
  /\ status # "crashed"
  /\ heap[a] # NoPc
  /\ heap[a].io_active
  /\ Commit(rfcomm_connect_cb(
              [State(<<"rfcomm_connect_cb", a, cond>>)
                 EXCEPT !.watches[a] = @ - 1, !.heap[a].io_active = FALSE],
              a, cond, e))
  /\ UNCHANGED status

\* a watch fires whose id is no longer in pc->io_id, because a later
\* rfcomm_connect on the same pc overwrote it: if the cell holds a pc the
\* callback runs on it; if the cell is free the callback uses freed memory,
\* which is taken to end the process
OrphanWatch(a, cond, e) ==
  /\ status # "crashed"
  /\ watches[a] > (IF heap[a] # NoPc /\ heap[a].io_active THEN 1 ELSE 0)
  /\ IF heap[a] = NoPc
       THEN /\ status' = "crashed"
            /\ Commit([State(<<"rfcomm_connect_cb", a, cond>>)
                         EXCEPT !.watches[a] = @ - 1])
       ELSE /\ Commit(rfcomm_connect_cb(
                        [State(<<"rfcomm_connect_cb", a, cond>>)
                           EXCEPT !.watches[a] = @ - 1], a, cond, e))
            /\ UNCHANGED status

\* the requester name leaves the bus: the name listeners registered for it are
\* called, one after the other, and dropped.  The bus never gives a unique name
\* twice, and the manager keeps nothing of a name whose listeners ran, so a
\* later call under this name stands for a call of a new client.
RECURSIVE owner_exited_calls(_, _, _)
owner_exited_calls(st, name, n) ==
  IF n = 0 THEN st
    ELSE owner_exited_calls(transaction_owner_exited(st, name), name, n - 1)

OwnerExit(name) ==
  /\ status # "crashed"
  /\ listeners[name] > 0
  /\ Commit([owner_exited_calls(State(<<"owner_exited", name>>), name,
                                listeners[name])
              EXCEPT !.listeners[name] = 0])
  /\ UNCHANGED status

ManagerUnregister(e) ==
  /\ status = "running"
  /\ status' = "unregistered"
  /\ Commit(manager_unregister(State(<<"manager_unregister">>), e))

(***************************************************************************)
(* The actions of the proxies: the method calls of the manager and of the   *)
(* proxy objects, and the accept and forwarding watches the main loop       *)
(* dispatches.                                                              *)
(***************************************************************************)
\* sk_counter numbers at most MaxProxy paths
CreateProxy(uuid128, address, e) ==
  /\ status = "running"
  /\ LET st == create_proxy(
                State(<<"call", "CreateProxy", 0, uuid128, address>>),
                Message(0, "", "CreateProxy"), uuid128, address, e)
     IN st.sk_counter <= MaxProxy /\ Commit(st)
  /\ UNCHANGED status

RemoveProxy(path, e) ==
  /\ status = "running"
  /\ Commit(remove_proxy(State(<<"call", "RemoveProxy", 0, path>>),
                         Message(0, "", "RemoveProxy"), path, e))
  /\ UNCHANGED status

\* a method of the interface org.bluez.serial.Proxy is called on the object p
Dispatched(p) == status # "crashed" /\ objects[p] # NoPrx

Enable(p, e) ==
  /\ Dispatched(p)
  /\ next_id <= MaxWatch
  /\ Commit(proxy_enable(State(<<"call", "Enable", 0, p>>), p,
                         Message(0, "", "Enable"), e))
  /\ UNCHANGED status

Disable(p, e) ==
  /\ Dispatched(p)
  /\ Commit(proxy_disable(State(<<"call", "Disable", 0, p>>), p,
                          Message(0, "", "Disable"), e))
  /\ UNCHANGED status

GetInfo(p) ==
  /\ Dispatched(p)
  /\ Commit(proxy_get_info(State(<<"call", "GetInfo", 0, p>>), p,
                           Message(0, "", "GetInfo")))
  /\ UNCHANGED status

SetSerialParameters(p, a) ==
  /\ Dispatched(p)
  /\ Commit(proxy_set_serial_params(
              State(<<"call", "SetSerialParameters", 0, p, a>>), p,
              Message(0, "", "SetSerialParameters"), a))
  /\ UNCHANGED status

\* the accept watch id fires: a connection waits (G_IO_IN), or the listening
\* socket failed
ConnectEvent(id, cond, e) ==
  /\ status # "crashed"
  /\ sources[id].kind = "listen"
  /\ cond = "G_IO_IN" => next_id + 1 <= MaxWatch
  /\ Commit(connect_event(State(<<"connect_event", id, cond, e>>), id, cond, e))
  /\ UNCHANGED status

\* the forward_data watch id fires: its channel is readable (G_IO_IN), its
\* other end hung up (G_IO_HUP), or its descriptor was closed (G_IO_NVAL)
ForwardData(id, cond, e) ==
  /\ status # "crashed"
  /\ sources[id].kind \in {"rfcomm", "local"}
  /\ (cond = "G_IO_NVAL") = ~sources[id].fd_open
  /\ LET st == forward_data(State(<<"forward_data", id, cond>>), id, cond, e)
     IN /\ Commit(st)
        /\ status' = IF st.crashed THEN "crashed" ELSE status

\* the callbacks of the main loop, with replies and system call results from
\* the given sets
Callbacks(handles, records, envs_send, envs_record, envs_cb) ==
  \/ \E a \in Addrs, reply \in handles, e \in envs_send :
       HandlesReply(a, reply, e)
  \/ \E a \in Addrs, reply \in records, e \in envs_record :
       RecordReply(a, reply, e)
  \/ \E a \in Addrs, e \in envs_cb : OpenTimeout(a, e)
  \/ \E a \in Addrs, cond \in {"G_IO_OUT", "G_IO_NVAL"}, e \in envs_cb :
       ConnectWatch(a, cond, e)
  \/ \E name \in Requesters : OwnerExit(name)
  \/ \E e \in {ProxyEnvOk} : ManagerUnregister(e)

\* several requests at a time, of few kinds
Next ==
  \/ \E sender \in Requesters, a \in Addrs, bda \in FewBdas,
        pattern \in FewPatterns, e \in FewEnvs :
       \/ ConnectService(sender, a, bda, pattern, e)
       \/ CreatePort(sender, a, bda, pattern, e)
  \/ \E bda \in FewBdas, pattern \in FewPatterns :
       CancelConnectService(bda, pattern)
  \/ Callbacks(FewHandlesReplies, FewRecordReplies, {EnvOk}, FewEnvs, FewEnvs)
  \/ \E a \in Addrs, cond \in {"G_IO_OUT", "G_IO_NVAL"}, e \in FewEnvs :
       OrphanWatch(a, cond, e)

Spec == Init /\ [][Next]_vars

\* one request at a time, of every kind; a watch is never orphaned then
NextInputs ==
  \/ /\ nmsgs < MaxReqInputs
     /\ \/ \E a \in Addrs, bda \in FewBdas, pattern \in Patterns,
              e \in EnvsCall \cup EnvsConnect :
             \/ ConnectService("r1", a, bda, pattern, e)
             \/ ConnectServiceFromAdapter("r1", a, bda, pattern, e)
        \/ \E a \in Addrs, bda \in FewBdas, pattern \in Patterns,
              e \in EnvsCall \cup EnvsBind :
             CreatePort("r1", a, bda, pattern, e)
  \/ \E bda \in Bdas, pattern \in CancelPatterns :
       CancelConnectService(bda, pattern)
  \/ Callbacks(HandlesReplies, RecordReplies, EnvsSend,
               EnvsConnect \cup EnvsBind, EnvsCb)

SpecInputs == Init /\ [][NextInputs]_vars

\* the arguments of SetSerialParameters: rate, data bits, stop bits, parity
SerialParams(rate, databits, stopbits, parity) ==
  [rate |-> rate, databits |-> databits, stopbits |-> stopbits,
   parity |-> parity]
ValidSerialParams ==
  { SerialParams("9600", 8, 1, <<"n","o","n","e">>),
    SerialParams("115200", 5, 2, <<"E","v","e","n">>) }
InvalidSerialParams ==
  { SerialParams("9601", 8, 1, <<"n","o","n","e">>),
    SerialParams("9600", 4, 1, <<"n","o","n","e">>),
    SerialParams("9600", 9, 1, <<"n","o","n","e">>),
    SerialParams("9600", 8, 0, <<"n","o","n","e">>),
    SerialParams("9600", 8, 3, <<"n","o","n","e">>),
    SerialParams("9600", 8, 1, <<"n","o">>) }

\* the CreateProxy calls: every address with a well-formed UUID, the
\* ill-formed UUIDs, and the failures of the system calls
CreateInputs ==
  { <<BASE_UUID, address, ProxyEnvOk>> : address \in Addresses }
  \cup { <<uuid128, address, ProxyEnvOk>> :
           uuid128 \in Uuids, address \in {AddrTty, AddrNone} }
  \cup { <<BASE_UUID, AddrTty, e>> : e \in EnvsCreate }

\* the events of the listening socket: a connection from either peer, the
\* failures of accept and of the local end, and the loss of the socket
ConnectInputs ==
  { <<"G_IO_IN", e>> :
      e \in { [ProxyEnvOk EXCEPT !.peer = peer] : peer \in {"p1", "p2"} }
             \cup { [ProxyEnvOk EXCEPT !.accept = FALSE],
                    [ProxyEnvOk EXCEPT !.local = FALSE] } }
  \cup { <<"G_IO_HUP", e>> : e \in EnvsUnpublish }

\* the events of a forwarding channel
ForwardInputs ==
  { <<"G_IO_IN", e>> : e \in EnvsForward }
  \cup { <<"G_IO_HUP", [ProxyEnvOk EXCEPT !.uaf = u]>> : u \in {"crash", "nothing"} }
  \cup { <<"G_IO_NVAL", ProxyEnvOk>> }

\* of the runs with several proxies: few arguments and few failures
FewCreateInputs ==
  { <<BASE_UUID, address, ProxyEnvOk>> : address \in {AddrTty, AddrSock, AddrNone} }
  \cup { <<UuidNoDashes, address, ProxyEnvOk>> : address \in {AddrTty, AddrSock} }

FewEnvsEnable == { ProxyEnvOk, [ProxyEnvOk EXCEPT !.record = FALSE] }

\* several proxies: their creation and removal, with every kind of argument,
\* their listeners and the connections they accept
NextProxy ==
  \/ \E c \in FewCreateInputs : CreateProxy(c[1], c[2], c[3])
  \/ \E path \in ProxyPaths, e \in EnvsUnpublish : RemoveProxy(path, e)
  \/ \E p \in ProxyPaths, e \in FewEnvsEnable : Enable(p, e)
  \/ \E p \in ProxyPaths : Disable(p, ProxyEnvOk)
  \/ \E id \in WatchIds : ConnectEvent(id, "G_IO_IN", ProxyEnvOk)
  \/ ManagerUnregister(ProxyEnvOk)

SpecProxy == Init /\ [][NextProxy]_vars

\* one proxy, with every kind of argument and failure
NextProxyInputs ==
  \/ \E c \in CreateInputs :
       /\ CreateProxy(c[1], c[2], c[3])
       /\ sk_counter' <= MaxProxyInputs
  \/ \E path \in ProxyPaths, e \in EnvsUnpublish : RemoveProxy(path, e)
  \/ \E p \in ProxyPaths, e \in EnvsEnable : Enable(p, e)
  \/ \E p \in ProxyPaths, e \in EnvsUnpublish : Disable(p, e)
  \/ \E p \in ProxyPaths : GetInfo(p)
  \/ \E p \in ProxyPaths, a \in ValidSerialParams \cup InvalidSerialParams :
       SetSerialParameters(p, a)
  \/ \E id \in WatchIds, c \in ConnectInputs :
       /\ ConnectEvent(id, c[1], c[2])
       /\ next_id' <= MaxWatchInputs + 1
  \/ \E id \in WatchIds, c \in ForwardInputs : ForwardData(id, c[1], c[2])
  \/ \E e \in EnvsUnpublish : ManagerUnregister(e)

SpecProxyInputs == Init /\ [][NextProxyInputs]_vars

\* one character-device proxy and the connections it accepts, one after the
\* other or at the same time, with their ends and the calls made meanwhile
NextProxyConn ==
  \/ /\ CreateProxy(BASE_UUID, AddrTty, ProxyEnvOk)
     /\ sk_counter' <= MaxProxyInputs
  \/ \E path \in ProxyPaths : RemoveProxy(path, ProxyEnvOk)
  \/ \E p \in ProxyPaths : Enable(p, ProxyEnvOk)
  \/ \E p \in ProxyPaths : Disable(p, ProxyEnvOk)
  \/ \E p \in ProxyPaths : GetInfo(p)
  \/ \E p \in ProxyPaths, a \in ValidSerialParams \cup InvalidSerialParams :
       SetSerialParameters(p, a)
  \/ \E id \in WatchIds, c \in ConnectInputs : ConnectEvent(id, c[1], c[2])
  \/ \E id \in WatchIds, c \in ForwardInputs : ForwardData(id, c[1], c[2])
  \/ ManagerUnregister(ProxyEnvOk)

SpecProxyConn == Init /\ [][NextProxyConn]_vars

\* what the reads and writes of one run of forward_data meet: a chunk that is
\* written at once, in two parts, in part before an error, or not at all; the
\* end of the stream and a read error; after a hang-up, two chunks or one
\* chunk and an error left to read
ByteInputs ==
  { <<"G_IO_IN", [ProxyEnvOk EXCEPT !.reads = <<ReadOk(<<1, 2>>)>>, !.writes = w]>> :
      w \in { << >>, <<WriteOk(1)>>, <<WriteOk(1), WriteError>>, <<WriteError>> } }
  \cup { <<"G_IO_IN", [ProxyEnvOk EXCEPT !.reads = r]>> :
           r \in { <<ReadOk(<< >>)>>, <<ReadError>> } }
  \cup { <<"G_IO_HUP", [ProxyEnvOk EXCEPT !.reads = r, !.writes = w]>> :
           r \in { << >>, <<ReadOk(<<1, 2>>), ReadOk(<<3>>)>>,
                   <<ReadOk(<<1, 2>>), ReadError>> },
           w \in { << >>, <<WriteOk(1)>>, <<WriteOk(1), WriteOk(1), WriteError>> } }
  \cup { <<"G_IO_NVAL", ProxyEnvOk>> }

\* one proxy, the connections it accepts and the bytes they carry
NextForward ==
  \/ /\ CreateProxy(BASE_UUID, AddrTcp, ProxyEnvOk)
     /\ sk_counter' <= MaxProxyInputs
  \/ \E p \in ProxyPaths : Enable(p, ProxyEnvOk)
  \/ \E id \in WatchIds : ConnectEvent(id, "G_IO_IN", ProxyEnvOk)
  \/ \E id \in WatchIds, c \in ByteInputs : ForwardData(id, c[1], c[2])

SpecForward == Init /\ [][NextForward]_vars

\* the main loop dispatches the forwarding watch id
Forwarding(id) == \E c \in ByteInputs : ForwardData(id, c[1], c[2])

\* the same, with a main loop that goes on dispatching every forwarding watch
SpecForwardFair ==
  SpecForward /\ \A id \in WatchIds : WF_vars(Forwarding(id))

(***************************************************************************)
(* Properties.  out is what the last handler run did: out[1] names the      *)
(* handler and its arguments, the events after it are <<kind, serial, ...>> *)
(* with the serial of the method call they were done for; <<"remove",       *)
(* serial>> is the removal of its pending connect from the registry.        *)
(***************************************************************************)
\* o is the run of ConnectService, ConnectServiceFromAdapter or CreatePort
IsSubmit(o) ==
  /\ Len(o) > 0
  /\ o[1][1] = "call"
  /\ o[1][2] \in {"ConnectService", "ConnectServiceFromAdapter", "CreatePort"}
IsConnectService(o) ==
  IsSubmit(o) /\ o[1][2] \in {"ConnectService", "ConnectServiceFromAdapter"}
\* the run o did something of this kind for the method call serial
Did(o, kind, serial) ==
  \E i \in 2..Len(o) : o[i][1] = kind /\ o[i][2] = serial
\* the run o answered the method call serial with this reply or error
Replied(o, serial, name) ==
  \E i \in 2..Len(o) : o[i][1] = "reply" /\ o[i][2] = serial /\ o[i][3] = name
\* the run o of a method call only answered it with this error
OnlyReplied(o, name) ==
  Len(o) = 2 /\ o[2][1] = "reply" /\ o[2][2] = o[1][3] /\ o[2][3] = name

\* two pending connects are for the same remote address and pattern, as the
\* manager compares them
SameRequest(p, q) ==
  strcasecmp_eq(p.bda, q.bda) /\ strcasecmp_eq(p.pattern, q.pattern)
\* the registry holds a pending connect for this address and pattern
IsPending(bda, pattern) ==
  \E i \in 1..Len(pending_connects) :
    SameRequest(heap[pending_connects[i]], [bda |-> bda, pattern |-> pattern])

\* everything but the count of calls and the record of the last run
Registry ==
  << heap, pending_connects, handles_calls, record_calls, timers, watches,
     devs, ports_paths, listeners >>

\* C1: in every reachable state the registry pending_connects holds at most
\* one pending connect per (remote address, pattern) pair, the pairs compared
\* as find_pending_connect_by_pattern compares them, so identical pairs too.
OnePendingConnectPerPair ==
  \A i, j \in 1..Len(pending_connects) :
    i # j => ~SameRequest(heap[pending_connects[i]], heap[pending_connects[j]])

\* C1 happens: two pending connects for one remote address, in two spellings
TwoPendingConnects ==
  /\ Len(pending_connects) = 2
  /\ heap[pending_connects[1]].bda # heap[pending_connects[2]].bda
  /\ strcasecmp_eq(heap[pending_connects[1]].bda, heap[pending_connects[2]].bda)

\* C2: a ConnectService or CreatePort call for an address and pattern that a
\* pending connect of the registry has is answered with InProgress and nothing
\* else is done: no pending connect is created, and the registry, the pending
\* connects and everything they wait for stay as they were.
DuplicateIsInProgress ==
  [][ (IsSubmit(out') /\ IsPending(out'[1][4], out'[1][5]))
        => (OnlyReplied(out', "InProgress") /\ UNCHANGED Registry) ]_vars

\* C2 happens: a call was answered with InProgress, and the pending connect it
\* repeats, sent under another spelling of the address, is in the registry
DuplicateRejected ==
  /\ IsSubmit(out)
  /\ OnlyReplied(out, "InProgress")
  /\ \E i \in 1..Len(pending_connects) :
       /\ heap[pending_connects[i]].bda # out[1][4]
       /\ SameRequest(heap[pending_connects[i]],
                      [bda |-> out[1][4], pattern |-> out[1][5]])

\* The classes of patterns.  A pattern is a number when strtol, with base 0,
\* reads all of it: decimal, octal with a leading 0, hexadecimal with 0x.
IsNameOrUuid(p) == pattern2uuid128(p).err = "0"
IsNumber(p) ==
  LET r == strtol(p) IN ~r.erange /\ r.end > 1 /\ r.end = Len(p) + 1
NumberOf(p) == [neg |-> strtol(p).neg, mag |-> strtol(p).mag]
IsChannelNumber(p) ==
  /\ ~IsNameOrUuid(p) /\ IsNumber(p)
  /\ ~LongLess(NumberOf(p), 1) /\ ~LongGreater(NumberOf(p), 30)
IsHandleNumber(p) ==
  ~IsNameOrUuid(p) /\ IsNumber(p) /\ ~LongLess(NumberOf(p), 65536)
HasHexPrefix(p) == Len(p) >= 2 /\ p[1] = "0" /\ p[2] \in {"x", "X"}

\* the run o of ConnectService connected at once on channel ch, with no
\* discovery call
ConnectsDirectly(o, ch) ==
  /\ Len(o) >= 2
  /\ o[2][1] = "rfcomm_connect" /\ o[2][2] = o[1][3] /\ o[2][3] = ch
  /\ ~Did(o, "get_handles", o[1][3])
  /\ ~Did(o, "get_record", o[1][3])

\* the run o of ConnectService made one discovery call, the fetch of the record
\* handle, and went no further
FetchesRecord(o, handle) ==
  /\ Len(o) = 2
  /\ o[2][1] = "get_record" /\ o[2][2] = o[1][3] /\ o[2][3] = handle

\* C3, as the code has it: for every pattern that is a number in [1,30] in
\* decimal or octal notation (no 0x prefix), a ConnectService call that is no
\* duplicate and finds the adapter makes no discovery call, neither handle
\* lookup nor record fetch, and starts the RFCOMM connect on exactly that
\* channel.
IsDirectChannel(p) == IsChannelNumber(p) /\ ~HasHexPrefix(p)
IsRecordHandle(p) == IsHandleNumber(p) /\ HasHexPrefix(p)
InvalidPatternRejected ==
  [][ (/\ IsSubmit(out')
       /\ ~IsNameOrUuid(out'[1][5])
       /\ ~IsChannelNumber(out'[1][5])
       /\ ~IsHandleNumber(out'[1][5])
       /\ ~IsPending(out'[1][4], out'[1][5]))
        => /\ OnlyReplied(out', "InvalidArguments") \/ OnlyReplied(out', "Failed")
           /\ UNCHANGED Registry ]_vars

\* C5 fails: CreatePort with a number followed by other characters bound a
\* device and created the port
NumberPrefixBound ==
  /\ IsSubmit(out)
  /\ out[1][2] = "CreatePort"
  /\ ~IsNumber(out[1][5]) /\ ~IsNameOrUuid(out[1][5])
  /\ Did(out, "bind", out[1][3])
  /\ Replied(out, out[1][3], "Return")

\* the pending connect at a is in the registry
IsLive(a) == g_slist_find(pending_connects, a)
\* the last run was this callback, called with the address a
Ran(o, callback, a) == Len(o) > 0 /\ o[1][1] = callback /\ o[1][2] = a
\* no device the kernel holds was created for the method call serial
NoDeviceOf(d, serial) == \A i \in DevIds : d[i] # NoDev => d[i].req # serial
\* the run o opened, or failed to open, the device of the method call serial
Opened(o, serial, ok) ==
  \E i \in 2..Len(o) : o[i][1] = "open" /\ o[i][2] = serial /\ o[i][4] = ok

\* a record reply the channel cannot be had from: the arguments are no byte
\* array, the array is empty, it is no record, the record was not read to its
\* end or lists no protocols, there is no RFCOMM channel or one out of [1,30]
IsUnusableRecord(reply) ==
  \/ reply.kind = "badargs"
  \/ /\ reply.kind = "record"
     /\ \/ reply.len = 0
        \/ ~reply.pdu
        \/ reply.len # reply.scanned
        \/ reply.protos < 0
        \/ reply.ch < 1
        \/ reply.ch > 30

\* C6: when the reply to the record fetch arrives for a pending connect that is
\* in the registry and not canceled, and the record is empty, cannot be parsed,
\* has no RFCOMM channel or one outside [1,30], then the request is answered
\* with NotSupported and that is all the callback does (no connect is started,
\* no device is bound), and the pending connect leaves the registry.
UnusableRecordIsNotSupported ==
  [][ \A a \in Addrs :
        (/\ Ran(out', "record_reply", a)
         /\ IsLive(a)
         /\ heap[a].canceled = 0
         /\ IsUnusableRecord(out'[1][3]))
          => /\ Len(out') = 3
             /\ out'[2][1] = "reply"
             /\ out'[3][1] = "remove"
             /\ Replied(out', heap[a].msg.serial, "NotSupported")
             /\ ~g_slist_find(pending_connects', a)
             /\ heap'[a] = NoPc
             /\ devs' = devs ]_vars

\* C6 happens: a record whose channel is 31 was answered with NotSupported
ChannelTooHighNotSupported ==
  /\ Len(out) = 3
  /\ out[1][1] = "record_reply"
  /\ out[1][3].kind = "record"
  /\ out[1][3].ch = 31
  /\ out[2][1] = "reply" /\ out[2][3] = "NotSupported"
  /\ heap[out[1][2]] = NoPc

\* the pending connect in cell a of the heap h is canceled and has no device
IsCanceledUnbound(h, a) ==
  h[a] # NoPc /\ h[a].canceled = 1 /\ h[a].id = -1

\* C7: a pending connect canceled before a device was bound for it (awaiting
\* handles, awaiting the record or connecting) has no device, and no step
\* taken while it is so leaves a device created for its request: when the
\* request has ended there is none unreleased.
CancelBeforeBindLeavesNoDevice ==
  [][ \A a \in Addrs :
        /\ IsCanceledUnbound(heap', a) => NoDeviceOf(devs', heap'[a].msg.serial)
        /\ IsCanceledUnbound(heap, a) => NoDeviceOf(devs', heap[a].msg.serial)
    ]_vars

\* C7 happens: the connect of a canceled request completed, the request ended
\* as canceled and there is no device of it
CanceledWhileConnecting ==
  /\ Len(out) = 3
  /\ out[1][1] = "rfcomm_connect_cb"
  /\ out[1][3] = "G_IO_OUT"
  /\ out[2][1] = "reply" /\ out[2][3] = "Canceled"
  /\ heap[out[1][2]] = NoPc
  /\ NoDeviceOf(devs, out[2][2])

\* C8: once a pending connect is canceled, the next callback of its request
\* (handles reply, record reply, connect completion or open retry, whether the
\* open succeeds or fails) ends it as canceled: the requester gets the Canceled
\* error, the device bound, if any, is released, and the pending connect
\* leaves the registry.
CanceledEndsAtNextCallback ==
  [][ \A a \in Addrs :
        (/\ \/ Ran(out', "handles_reply", a)
            \/ Ran(out', "record_reply", a)
            \/ Ran(out', "rfcomm_connect_cb", a)
            \/ Ran(out', "open_continue", a)
         /\ IsLive(a)
         /\ heap[a].canceled = 1)
          => /\ Replied(out', heap[a].msg.serial, "Canceled")
             /\ NoDeviceOf(devs', heap[a].msg.serial)
             /\ ~g_slist_find(pending_connects', a)
    ]_vars

\* C8 fails: the open retry of a canceled request failed, and the request is
\* still pending
CanceledStillRetrying ==
  /\ Len(out) = 2
  /\ out[1][1] = "open_continue"
  /\ out[2][1] = "open" /\ ~out[2][4]
  /\ IsLive(out[1][2])
  /\ heap[out[1][2]].canceled = 1
  /\ heap[out[1][2]].msg.serial = out[2][2]

\* C9 (its safety half): a request whose device was bound is answered with the
\* error of a failed open only when the device could not be opened in any of
\* its first 5 attempts.  An open event carries the number of attempts made on
\* the device of the request, this one included.
OpenFailureOnlyAfterFiveAttempts ==
  [][ \A i \in 2..Len(out') :
        (/\ out'[i][1] = "open"
         /\ out'[i][3] # -1
         /\ ~out'[i][4]
         /\ Replied(out', out'[i][2], "ConnectionAttemptFailed"))
          => out'[i][5] >= 5 ]_vars

\* C9 fails: the request was failed at the second attempt to open its device
FailedAtSecondAttempt ==
  \E i \in 2..Len(out) :
    /\ out[i][1] = "open" /\ out[i][3] # -1 /\ ~out[i][4] /\ out[i][5] = 2
    /\ Replied(out, out[i][2], "ConnectionAttemptFailed")

\* C10: when an open retry fails, the request gets no success reply and no
\* ServiceConnected signal; at the retry bound (the MAX_OPEN_TRIES-th failed
\* retry) it is answered with ConnectionAttemptFailed carrying the error of the
\* open, its device (the one pc->id names) is released and the pending connect
\* leaves the registry; below the bound it stays pending, unanswered.  A
\* success reply and ServiceConnected are only ever sent by a run that opened
\* the device.
FailedOpenEndsAtRetryBound ==
  [][ /\ \A a \in Addrs :
           (/\ Ran(out', "open_continue", a)
            /\ IsLive(a)
            /\ Opened(out', heap[a].msg.serial, FALSE))
             => LET serial == heap[a].msg.serial
                IN /\ ~Replied(out', serial, "Return")
                   /\ ~Did(out', "signal", serial)
                   /\ IF heap[a].ntries + 1 >= MAX_OPEN_TRIES
                        THEN /\ \E i \in 2..Len(out') :
                                  /\ out'[i][1] = "reply"
                                  /\ out'[i][2] = serial
                                  /\ out'[i][3] = "ConnectionAttemptFailed"
                                  /\ out'[i][4] = "errno(open)"
                             /\ \E i \in 2..Len(out') :
                                  /\ out'[i][1] = "release"
                                  /\ out'[i][2] = serial
                                  /\ out'[i][3] = heap[a].id
                             /\ heap[a].id \in DevIds
                                  => devs'[heap[a].id] = NoDev
                             /\ ~g_slist_find(pending_connects', a)
                             /\ heap'[a] = NoPc
                        ELSE /\ ~Did(out', "reply", serial)
                             /\ g_slist_find(pending_connects', a)
      /\ \A i \in 2..Len(out') :
           (out'[i][1] = "signal" /\ out'[i][3] = "ServiceConnected")
             => /\ Opened(out', out'[i][2], TRUE)
                /\ Replied(out', out'[i][2], "Return") ]_vars

\* C10 happens: the last retry failed on a device that six attempts could not
\* open; the request was failed and the device released
RetriesExhausted ==
  /\ Len(out) = 5
  /\ out[1][1] = "open_continue"
  /\ out[2][1] = "open" /\ ~out[2][4] /\ out[2][5] = MAX_OPEN_TRIES + 1
  /\ out[3][1] = "release" /\ out[3][3] = out[2][3]
  /\ out[4][1] = "reply" /\ out[4][3] = "ConnectionAttemptFailed"
  /\ heap[out[1][2]] = NoPc
  /\ devs[out[2][3]] = NoDev

\* the pending connects of the registry whose method call came from name
PendingOf(name) ==
  {a \in Addrs : IsLive(a) /\ heap[a].msg.sender = name}

\* C11: when a requester leaves the bus, every pending connect of the registry
\* whose call it sent, however many there are and whatever they wait for,
\* leaves the registry and is freed, the device pc->id names is released if one
\* was bound, and no reply and no signal is sent.  The exit is noticed whenever
\* there is such a pending connect (a name listener is registered for the
\* requester), and no later run answers a request that has left the registry: a
\* run answers the call it serves or a pending connect of the registry.
OwnerExitRemovesAll ==
  [][ /\ (Len(out') > 0 /\ out'[1][1] = "owner_exited")
        => /\ \A i \in 2..Len(out') : out'[i][1] = "release"
           /\ \A a \in PendingOf(out'[1][2]) :
                /\ ~g_slist_find(pending_connects', a)
                /\ heap'[a] = NoPc
                /\ heap[a].id >= 0
                     => /\ \E i \in 2..Len(out') :
                             /\ out'[i][2] = heap[a].msg.serial
                             /\ out'[i][3] = heap[a].id
                        /\ devs'[heap[a].id] = NoDev
      /\ \A name \in Requesters :
           (\E a \in Addrs : g_slist_find(pending_connects', a)
                             /\ heap'[a].msg.sender = name)
             => listeners'[name] > 0
      /\ \A i \in 2..Len(out') :
           out'[i][1] \in {"reply", "signal"}
             => \/ out'[1][1] = "call" /\ out'[1][3] = out'[i][2]
                \/ \E a \in Addrs : IsLive(a) /\ heap[a].msg.serial = out'[i][2]
    ]_vars

\* C11 happens: the requester of two requests left, both had a device, both
\* devices were released and the registry is empty
OwnerOfTwoExited ==
  /\ Len(out) = 3
  /\ out[1][1] = "owner_exited"
  /\ out[2][1] = "release" /\ out[3][1] = "release"
  /\ out[2][2] # out[3][2]
  /\ pending_connects = << >>
  /\ \A d \in DevIds : devs[d] = NoDev

\* the heap h holds the pending connect of the method call serial
InHeap(h, serial) == \E a \in Addrs : h[a].msg.serial = serial
\* the run o served the method call serial, which started a request
IsCallOf(o, serial) ==
  Len(o) > 0 /\ o[1][1] = "call" /\ o[1][3] = serial
\* the run o was the exit of a requester or the unregistration of the manager
IsSilentEnd(o) ==
  Len(o) > 0 /\ o[1][1] \in {"owner_exited", "manager_unregister"}

\* C12: a ConnectService, ConnectServiceFromAdapter or CreatePort call is never
\* answered twice, and it is unanswered as long as its pending connect exists.
\* The run in which its request ends (the call itself when it leaves no pending
\* connect, or the run that frees the pending connect) sends it exactly one
\* reply, unless that run is the exit of a requester or the unregistration of
\* the manager, which send none.  The reply is made from pc->msg (or from the
\* message of the call), so it goes to the sender of the call.
OneReplyPerRequest ==
  [][ \A s \in Serials :
        /\ replies'[s] <= 1
        /\ InHeap(heap', s) => replies'[s] = 0
        /\ ((InHeap(heap, s) \/ IsCallOf(out', s)) /\ ~InHeap(heap', s))
             => replies'[s] = (IF IsSilentEnd(out') THEN 0 ELSE 1) ]_vars

\* C12 happens: of two requests one was answered, the other ended unanswered
\* when its requester left the bus
OneAnsweredOneSilent ==
  /\ nmsgs = 2
  /\ Len(out) > 0 /\ out[1][1] = "owner_exited"
  /\ \A a \in Addrs : heap[a] = NoPc
  /\ \E s, t \in Serials : replies[s] = 1 /\ replies[t] = 0

\* the method call serial, which the run o serves or whose pending connect the
\* heap h holds, is a ConnectService or ConnectServiceFromAdapter call
IsConnectRequest(o, h, serial) ==
  \/ IsCallOf(o, serial) /\ IsConnectService(o)
  \/ \E a \in Addrs :
       /\ h[a] # NoPc
       /\ h[a].msg.serial = serial
       /\ h[a].msg.member \in {"ConnectService", "ConnectServiceFromAdapter"}
\* the i-th thing the run o did is of this kind, for the method call serial
IsEvent(o, i, kind, serial) ==
  i \in 2..Len(o) /\ o[i][1] = kind /\ o[i][2] = serial
\* the i-th thing the run o did is the signal ServiceConnected
IsServiceConnected(o, i) ==
  i \in 2..Len(o) /\ o[i][1] = "signal" /\ o[i][3] = "ServiceConnected"

\* C13: the run that answers a ConnectService request with success sends the
\* reply with the device path, then emits ServiceConnected with that path, then
\* hands the device id to the port listener, then removes the pending connect
\* from the registry, in this order with nothing in between; it emits
\* ServiceConnected once and does not release the device, which stays with the
\* port listener.  ServiceConnected is only ever emitted right after the
\* success reply of its request, the only reply the request gets.
DoneRepliesThenSignals ==
  [][ \A i \in 2..Len(out') :
        /\ (/\ out'[i][1] = "reply"
            /\ out'[i][3] = "Return"
            /\ IsConnectRequest(out', heap, out'[i][2]))
             => LET serial == out'[i][2]
                    dev == out'[i][4]
                IN /\ IsEvent(out', i + 1, "signal", serial)
                   /\ IsServiceConnected(out', i + 1)
                   /\ out'[i + 1][4] = dev
                   /\ IsEvent(out', i + 2, "port_add_listener", serial)
                   /\ out'[i + 2][3] = dev
                   /\ IsEvent(out', i + 3, "remove", serial)
                   /\ ~InHeap(heap', serial)
                   /\ \A j \in 2..Len(out') :
                        IsServiceConnected(out', j) /\ out'[j][2] = serial
                          => j = i + 1
                   /\ ~Did(out', "release", serial)
                   /\ devs'[dev] # NoDev
                   /\ devs'[dev].listener
        /\ IsServiceConnected(out', i)
             => /\ IsEvent(out', i - 1, "reply", out'[i][2])
                /\ out'[i - 1][3] = "Return"
                /\ replies'[out'[i][2]] = 1 ]_vars

\* C13 happens: an open retry opened the device of a ConnectService request;
\* reply, signal, port listener and removal followed
DoneAfterRetry ==
  /\ Len(out) = 6
  /\ out[1][1] = "open_continue"
  /\ out[2][1] = "open" /\ out[2][4]
  /\ out[3][1] = "reply" /\ out[3][3] = "Return"
  /\ out[4][1] = "signal" /\ out[4][3] = "ServiceConnected"
  /\ out[5][1] = "port_add_listener"
  /\ out[6][1] = "remove"
  /\ heap[out[1][2]] = NoPc
  /\ devs[out[3][4]].listener

(***************************************************************************)
(* Properties of the proxies.  The runs of their handlers are in out, as    *)
(* those of the pending connects are, with serial 0 in every event.         *)
(***************************************************************************)
\* the run o served a call of this method
IsMethod(o, member) == Len(o) > 0 /\ o[1][1] = "call" /\ o[1][2] = member
\* the proxy objects that exist
Proxies == {p \in ProxyPaths : objects[p] # NoPrx}
\* a proxy object exists whose local address is this one
HasProxyAt(address) == \E p \in Proxies : objects[p].address = address
\* the proxy objects and their registry
ProxyRegistry == << proxies_paths, sk_counter, objects >>

ListenerActive(p) ==
  /\ objects[p].listen_watch # 0
  /\ sources[objects[p].listen_watch].kind = "listen"
  /\ sources[objects[p].listen_watch].prx = p

\* proxy p is marked connected: it holds a forwarding handle
MarkedConnected(p) ==
  objects[p].rfcomm_watch # 0 \/ objects[p].local_watch # 0

\* C15: in every state every proxy has its listener active (the accept watch
\* id is set and the watch exists) if and only if its record id is not zero,
\* the record of that id is then in the service database, and a proxy that
\* holds forwarding handles has its listener active.
ListenerIffRecord ==
  \A p \in Proxies :
    /\ (objects[p].listen_watch # 0) <=> (objects[p].record_id # 0)
    /\ (objects[p].listen_watch # 0) => ListenerActive(p)
    /\ (objects[p].record_id # 0) => objects[p].record_id \in sdp_records
    /\ MarkedConnected(p) => ListenerActive(p)

\* C15 happens: a proxy has just accepted a connection, so that it listens,
\* has a record and holds both forwarding handles
ProxyAcceptedConnection ==
  /\ Len(out) > 0 /\ out[1][1] = "connect_event"
  /\ \E p \in Proxies :
       /\ ListenerActive(p)
       /\ objects[p].record_id # 0
       /\ objects[p].rfcomm_watch # 0 /\ objects[p].local_watch # 0

\* the forwarding watches the main loop has, among the watches src, for a
\* connection accepted by proxy p
ForwardingOf(src, p) ==
  {id \in WatchIds : src[id].kind \in {"rfcomm", "local"} /\ src[id].prx = p}

\* the entries of the dictionary info under the key
InfoEntries(info, key) == {i \in 1..Len(info) : info[i][1] = key}

\* the dictionary info has the value under the key
InfoHas(info, key, value) ==
  \E i \in InfoEntries(info, key) : info[i][2] = value

\* C16 as stated, which fails: once both forwarding directions of a
\* listening proxy have stopped, the forwarding handles of the proxy are
\* cleared, and GetInfo reports enabled=true, connected=false and no peer
\* address (the only "address" entry is the local one).
StoppedForwardingIsEnabled ==
  [][ /\ \A p \in ProxyPaths :
           (/\ objects'[p] # NoPrx
            /\ objects'[p].listen_watch # 0
            /\ ForwardingOf(sources', p) = {})
             => objects'[p].rfcomm_watch = 0 /\ objects'[p].local_watch = 0
      /\ (/\ IsMethod(out', "GetInfo")
          /\ objects[out'[1][4]].listen_watch # 0
          /\ ForwardingOf(sources, out'[1][4]) = {})
           => /\ OnlyReplied(out', "Return")
              /\ InfoHas(out'[2][4], "enabled", TRUE)
              /\ InfoHas(out'[2][4], "connected", FALSE)
              /\ Cardinality(InfoEntries(out'[2][4], "address")) = 1 ]_vars

\* C16 breaks: both forwarding directions of a connection have stopped, the
\* listener is active, and GetInfo still reports the proxy as connected, with
\* the address of the peer that left
GetInfoConnectedAfterPeerLeft ==
  /\ IsMethod(out, "GetInfo")
  /\ OnlyReplied(out, "Return")
  /\ ListenerActive(out[1][4])
  /\ ForwardingOf(sources, out[1][4]) = {}
  /\ \A id \in WatchIds : sources[id].kind \notin {"rfcomm", "local"}
  /\ objects[out[1][4]].rfcomm_watch # 0
  /\ InfoHas(out[2][4], "enabled", TRUE)
  /\ InfoHas(out[2][4], "connected", TRUE)
  /\ Cardinality(InfoEntries(out[2][4], "address")) = 2

\* a peer is connected to proxy p: the main loop has a forwarding watch on an
\* open radio socket that p accepted
PeerConnected(src, p) ==
  \E id \in ForwardingOf(src, p) : src[id].kind = "rfcomm" /\ src[id].fd_open

\* C17 as stated, which fails: while a peer is connected to a proxy,
\* SetSerialParameters is answered with the failure "Not allowed", whatever
\* its arguments, and the stored line settings stay as they are.
ConnectedRejectsSerialParams ==
  [][ (IsMethod(out', "SetSerialParameters")
         /\ PeerConnected(sources, out'[1][4]))
        => /\ OnlyReplied(out', "Failed")
           /\ out'[2][4] = "Not allowed"
           /\ UNCHANGED objects ]_vars

\* C17 breaks: the line settings were changed while a peer is connected and
\* being forwarded, after a second connection was accepted and the proxy was
\* disabled
SerialParamsSetWhileConnected ==
  /\ IsMethod(out, "SetSerialParameters")
  /\ OnlyReplied(out, "Return")
  /\ PeerConnected(sources, out[1][4])
  /\ objects[out[1][4]].local_watch = 0
  /\ objects[out[1][4]].proxy_ti.speed = out[1][5].rate
  /\ objects[out[1][4]].proxy_ti # SysTermios

\* C18 as stated, which fails: SetSerialParameters with a supported rate,
\* 5 to 8 data bits, 1 or 2 stop bits and a parity that set_parity knows, on
\* a TTY proxy none of whose connections is being forwarded, succeeds and
\* stores the rate and the bits.
DisconnectedAcceptsSerialParams ==
  [][ (/\ IsMethod(out', "SetSerialParameters")
       /\ out'[1][5] \in ValidSerialParams
       /\ objects[out'[1][4]].type = "TTY_PROXY"
       /\ ForwardingOf(sources, out'[1][4]) = {})
        => /\ OnlyReplied(out', "Return")
           /\ objects'[out'[1][4]].proxy_ti.speed = out'[1][5].rate
           /\ objects'[out'[1][4]].proxy_ti.csize = out'[1][5].databits
           /\ objects'[out'[1][4]].proxy_ti.cstopb = (out'[1][5].stopbits = 2) ]_vars

\* C18 breaks: SetSerialParameters with valid arguments was refused as "Not
\* allowed" on a listening TTY proxy whose only connection has ended
SerialParamsRefusedAfterPeerLeft ==
  /\ IsMethod(out, "SetSerialParameters")
  /\ out[1][5] \in ValidSerialParams
  /\ OnlyReplied(out, "Failed")
  /\ out[2][4] = "Not allowed"
  /\ objects[out[1][4]].type = "TTY_PROXY"
  /\ ListenerActive(out[1][4])
  /\ \A id \in WatchIds : sources[id].kind \notin {"rfcomm", "local"}
  /\ objects[out[1][4]].proxy_ti = SysTermios

\* the events of the kind in the output o
EventsOf(o, kind) == {i \in 2..Len(o) : o[i][1] = kind}

\* the output o has a reply with the text
RepliedText(o, text) == \E i \in EventsOf(o, "reply") : o[i][4] = text

\* what a proxy listens, publishes and forwards with
ProxyListening == << objects, sources, sdp_records, next_id >>

\* C19: an Enable call on a proxy whose accept watch id is set is answered
\* with the failure "Already enabled" and nothing else is done: no socket is
\* opened, no record added, no watch added, and the proxy, the watches and
\* the service database stay as they are.
EnableTwiceIsRefused ==
  [][ (IsMethod(out', "Enable") /\ objects[out'[1][4]].listen_watch # 0)
        => /\ OnlyReplied(out', "Failed")
           /\ out'[2][4] = "Already enabled"
           /\ UNCHANGED ProxyListening ]_vars

\* C19 happens: Enable was refused on a proxy that listens and forwards a
\* connection
EnableRefusedWhileConnected ==
  /\ IsMethod(out, "Enable")
  /\ OnlyReplied(out, "Failed")
  /\ out[2][4] = "Already enabled"
  /\ ListenerActive(out[1][4])
  /\ PeerConnected(sources, out[1][4])
  /\ Cardinality(sdp_records) = 1

\* C20: when an Enable call has opened its listening socket and the record is
\* not added, the socket is closed, the caller gets a failure, no watch is
\* added, the accept watch id and the record id are zero afterwards and the
\* service database is as before; and an Enable call on a proxy whose accept
\* watch id is zero is never answered with "Already enabled".
FailedPublicationLeavesDisabled ==
  [][ /\ (/\ IsMethod(out', "Enable")
          /\ EventsOf(out', "listen") # {}
          /\ EventsOf(out', "add_record") = {})
           => /\ Len(out') = 4
              /\ out'[2][1] = "listen"
              /\ out'[3] = <<"close", 0, "listen", out'[1][4]>>
              /\ out'[4][1] = "reply" /\ out'[4][3] = "Failed"
              /\ objects'[out'[1][4]].listen_watch = 0
              /\ objects'[out'[1][4]].record_id = 0
              /\ UNCHANGED << sources, sdp_records, next_id >>
      /\ (IsMethod(out', "Enable") /\ objects[out'[1][4]].listen_watch = 0)
           => ~RepliedText(out', "Already enabled") ]_vars

\* C20 happens: an Enable call failed for the record, on a proxy that was
\* enabled and disabled before, and left the proxy disabled
EnableFailedForRecord ==
  /\ IsMethod(out, "Enable")
  /\ Len(out) = 4
  /\ out[3] = <<"close", 0, "listen", out[1][4]>>
  /\ RepliedText(out, "Service registration failed")
  /\ objects[out[1][4]].listen_watch = 0
  /\ objects[out[1][4]].record_id = 0
  /\ sdp_records = {}
  /\ next_id > 1

\* C21 as stated, which fails: a Disable call on a proxy whose accept watch
\* id is set leaves no accept watch, no forwarding watch of any connection
\* the proxy accepted, and the record id zero; a Disable call on a proxy that
\* does not listen is answered with the failure "Not enabled" and changes
\* nothing.
DisableStopsEverything ==
  [][ /\ (IsMethod(out', "Disable") /\ objects[out'[1][4]].listen_watch # 0)
           => /\ objects'[out'[1][4]].listen_watch = 0
              /\ objects'[out'[1][4]].record_id = 0
              /\ \A id \in WatchIds :
                   sources'[id].kind = "listen" => sources'[id].prx # out'[1][4]
              /\ ForwardingOf(sources', out'[1][4]) = {}
      /\ (IsMethod(out', "Disable") /\ objects[out'[1][4]].listen_watch = 0)
           => /\ OnlyReplied(out', "Failed")
              /\ out'[2][4] = "Not enabled"
              /\ UNCHANGED ProxyListening ]_vars

\* C21 breaks: after a Disable call that succeeded, the proxy has no accept
\* watch and no record id, and the main loop still forwards a connection the
\* proxy accepted
ForwardingAfterDisable ==
  /\ IsMethod(out, "Disable")
  /\ out[Len(out)][1] = "reply" /\ out[Len(out)][3] = "Return"
  /\ objects[out[1][4]].listen_watch = 0
  /\ objects[out[1][4]].record_id = 0
  /\ objects[out[1][4]].rfcomm_watch = 0
  /\ PeerConnected(sources, out[1][4])
  /\ Cardinality(ForwardingOf(sources, out[1][4])) = 2

\* the radio connections proxy p accepted that the main loop forwards
RadioWatchesOf(src, p) ==
  {id \in ForwardingOf(src, p) : src[id].kind = "rfcomm"}

\* C30 as stated, which fails: in every state the main loop forwards at most
\* one radio connection per proxy, in at most one pair of forwarding watches.
OneForwardingPair ==
  \A p \in Proxies :
    /\ Cardinality(RadioWatchesOf(sources, p)) <= 1
    /\ Cardinality(ForwardingOf(sources, p)) <= 2

\* C30 breaks: a proxy has accepted the connection of a second peer while it
\* forwards that of a first, and both are forwarded, each in its own pair of
\* watches
TwoForwardingPairs ==
  /\ Len(out) > 0 /\ out[1][1] = "connect_event"
  /\ \E p \in Proxies :
       /\ Cardinality(RadioWatchesOf(sources, p)) = 2
       /\ Cardinality(ForwardingOf(sources, p)) = 4
       /\ \A id \in ForwardingOf(sources, p) : sources[id].fd_open
       /\ objects[p].rfcomm_watch = MaxWatch - 1
       /\ objects[p].local_watch = MaxWatch

\* the watches of the main loop, among src, that proxy p added
WatchesOf(src, p) == {id \in WatchIds : src[id] # NoSrc /\ src[id].prx = p}

\* C22 as stated, which fails: a RemoveProxy call for a path of the proxy
\* list removes the accept watch, the forwarding watches and the record of
\* the proxy before it frees the proxy, takes the path from the list, emits
\* ProxyRemoved and replies; a RemoveProxy call for another path is answered
\* with DoesNotExist and changes nothing.
RemoveProxyTearsDown ==
  [][ /\ (IsMethod(out', "RemoveProxy")
            /\ g_slist_find(proxies_paths, out'[1][4])
            /\ objects[out'[1][4]] # NoPrx)
           => /\ objects'[out'[1][4]] = NoPrx
              /\ ~g_slist_find(proxies_paths', out'[1][4])
              /\ WatchesOf(sources', out'[1][4]) = {}
              /\ objects[out'[1][4]].record_id \notin sdp_records'
              /\ Cardinality(EventsOf(out', "proxy_free")) = 1
              /\ \A i \in EventsOf(out', "source_remove")
                          \cup EventsOf(out', "remove_record")
                          \cup EventsOf(out', "close") :
                   \A j \in EventsOf(out', "proxy_free") : i < j
              /\ \E i \in EventsOf(out', "signal") :
                   out'[i][3] = "ProxyRemoved" /\ out'[i][4] = out'[1][4]
              /\ out'[Len(out')][1] = "reply" /\ out'[Len(out')][3] = "Return"
      /\ (IsMethod(out', "RemoveProxy")
            /\ ~g_slist_find(proxies_paths, out'[1][4]))
           => /\ OnlyReplied(out', "DoesNotExist")
              /\ UNCHANGED ProxyRegistry
              /\ UNCHANGED ProxyListening ]_vars

\* C22 breaks: a proxy was removed and freed, and the main loop still
\* forwards a connection it accepted
ForwardingAfterRemoveProxy ==
  /\ IsMethod(out, "RemoveProxy")
  /\ out[Len(out)][1] = "reply" /\ out[Len(out)][3] = "Return"
  /\ objects[out[1][4]] = NoPrx
  /\ ~g_slist_find(proxies_paths, out[1][4])
  /\ PeerConnected(sources, out[1][4])
  /\ Cardinality(ForwardingOf(sources, out[1][4])) = 2

\* an accept event of the watch id, in which accept succeeds and the local
\* end cannot be opened or connected: o is the output of the run, st the
\* state it started in
LocalEndFails(o, st) ==
  /\ Len(o) > 0 /\ o[1][1] = "connect_event"
  /\ o[1][3] = "G_IO_IN"
  /\ o[1][4].accept
  /\ local_connect(st, st.sources[o[1][2]].prx, o[1][4]).lsk < 0

\* C23: when a listening proxy accepts a connection and the local end cannot
\* be opened or connected, the accepted socket is closed, no watch is added
\* and none removed, and the proxy is as before but for the address of the
\* peer: its listener is active and its record is in the service database.
FailedLocalEndKeepsListening ==
  [][ LocalEndFails(out', State(out'[1]))
        => /\ out'[Len(out')] = <<"close", 0, "rfcomm", sources[out'[1][2]].prx>>
           /\ EventsOf(out', "add_watch") = {}
           /\ UNCHANGED << sources, next_id, sdp_records, proxies_paths,
                           sk_counter >>
           /\ objects' = [objects EXCEPT ![sources[out'[1][2]].prx].dst =
                                           out'[1][4].peer] ]_vars

\* C23 happens: the local end of a proxy could not be opened for an accepted
\* connection, and the proxy still listens with its record
LocalEndFailed ==
  /\ LocalEndFails(out, State(out[1]))
  /\ out[Len(out)][1] = "close"
  /\ ListenerActive(sources[out[1][2]].prx)
  /\ objects[sources[out[1][2]].prx].record_id \in sdp_records
  /\ ForwardingOf(sources, sources[out[1][2]].prx) = {}
  /\ objects[sources[out[1][2]].prx].dst = out[1][4].peer

\* C24 as stated, which fails: no request has its device path opened more
\* than MAX_OPEN_TRIES times, the attempt of port_open and the attempts of
\* open_continue taken together.
AtMostFiveOpenAttempts ==
  [][ \A i \in EventsOf(out', "open") :
        out'[i][3] # -1 => out'[i][5] <= MAX_OPEN_TRIES ]_vars

\* C24 breaks: the device of a request was opened at the sixth attempt, the
\* fifth of the retry timer, and the request answered with the device
SixthOpenAttempt ==
  /\ Len(out) > 1
  /\ out[1][1] = "open_continue"
  /\ out[2][1] = "open" /\ out[2][3] # -1 /\ out[2][4]
  /\ out[2][5] = MAX_OPEN_TRIES + 1
  /\ Replied(out, out[2][2], "Return")

\* the release calls the run o made while serving the method call serial
ReleasesOf(o, serial) == {i \in EventsOf(o, "release") : o[i][2] = serial}

\* the run o ended the request of the method call serial, whose pending
\* connect was in h, in failure, cancellation or the exit of its requester
EndedBadly(o, h, hnext, serial) ==
  /\ InHeap(h, serial)
  /\ ~InHeap(hnext, serial)
  /\ ~Replied(o, serial, "Return")
  /\ o[1][1] # "manager_unregister"

\* C25 as stated, which fails: a run that ends a request in failure,
\* cancellation or the exit of its requester releases the device the request
\* had bound, so that the kernel holds no device of the request afterwards;
\* and a request is released for at most once, in the run that ends it.
BoundDeviceReleasedOnce ==
  [][ \A s \in Serials :
        /\ EndedBadly(out', heap, heap', s) => NoDeviceOf(devs', s)
        /\ \A a \in Addrs :
             (EndedBadly(out', heap, heap', s) /\ heap[a].msg.serial = s
                /\ heap[a].id >= 0)
               => \E i \in ReleasesOf(out', s) : out'[i][3] = heap[a].id
        /\ Cardinality(ReleasesOf(out', s)) <= 1
        /\ ReleasesOf(out', s) # {} => ~InHeap(heap', s) ]_vars

\* C25 breaks: a reply of the directory service, left over from an earlier
\* request, ended a request that had bound its device; the request was
\* answered with an error and freed, and its device was not released
DeviceLeftByStaleReply ==
  /\ Len(out) > 0
  /\ out[1][1] \in {"handles_reply", "record_reply"}
  /\ ~g_slist_find(pending_connects, out[1][2])
  /\ EventsOf(out, "release") = {}
  /\ \E s \in Serials :
       /\ Did(out, "reply", s)
       /\ Did(out, "remove", s)
       /\ ~Replied(out, s, "Return")
       /\ ~InHeap(heap, s)
       /\ \E d \in DevIds :
            /\ devs[d] # NoDev
            /\ devs[d].req = s
            /\ ~devs[d].persistent
            /\ ~devs[d].listener

\* the callbacks that carry the address of a pending connect
PcCallbacks == {"handles_reply", "record_reply", "rfcomm_connect_cb", "open_continue"}

\* the callback cb, called with the address a, was not started by the pending
\* connect of the registry at a: there is none, or the one there has its
\* channel already (so it waits for no reply of the directory service), or
\* has no device yet (so it added no timer)
LeftOver(cb, a) ==
  \/ ~IsLive(a)
  \/ cb \in {"handles_reply", "record_reply"} /\ heap[a].channel # 0
  \/ cb = "open_continue" /\ heap[a].dev = -1

\* what the pending connects are and wait for, but for the callback that ran
PendingState ==
  << heap, pending_connects, devs, ports_paths, listeners >>

\* C26 as stated, which fails: a reply, connect completion or timer that was
\* started by a pending connect which is no longer in the registry does
\* nothing: it sends no reply and no signal, makes no call, and leaves every
\* pending connect, device and name listener as it is.
LeftOverCallbackDiscarded ==
  [][ \A a \in Addrs :
        (Len(out') > 0 /\ out'[1][1] \in PcCallbacks /\ out'[1][2] = a
           /\ LeftOver(out'[1][1], a))
          => /\ Len(out') = 1
             /\ UNCHANGED PendingState
             /\ status' = status
             /\ \A b \in Addrs :
                  /\ handles_calls'[b] <= handles_calls[b]
                  /\ record_calls'[b] <= record_calls[b]
                  /\ timers'[b] <= timers[b]
                  /\ watches'[b] <= watches[b] ]_vars

\* C26 breaks: a reply of the directory service that no request of the
\* registry waited for ended a request that was opening its device: the
\* request was answered and freed, and its retry timer is still to fire
StaleReplyEndedOpeningRequest ==
  /\ Len(out) > 0
  /\ out[1][1] \in {"handles_reply", "record_reply"}
  /\ heap[out[1][2]] = NoPc
  /\ timers[out[1][2]] > 0
  /\ handles_calls[out[1][2]] = 0 /\ record_calls[out[1][2]] = 0
  /\ \E s \in Serials : Did(out, "reply", s) /\ Did(out, "remove", s)

\* the asynchronous steps outstanding for the pending connect at a: the calls,
\* watches and timers whose data is a
OutstandingAt(a) ==
  handles_calls[a] + record_calls[a] + watches[a] + timers[a]

\* C27 as stated, which fails: in every state at most one asynchronous step
\* is outstanding for each pending connect of the registry.
OneOutstandingStep ==
  \A a \in Addrs : IsLive(a) => OutstandingAt(a) <= 1

\* C27 breaks: a pending connect of the registry has bound its device, so
\* that its open retry timer runs, and waits for the completion of a connect
\* as well, which a record reply left over from an earlier request started
ConnectingWhileOpening ==
  \E a \in Addrs :
    /\ IsLive(a)
    /\ heap[a].dev # -1
    /\ heap[a].io_active
    /\ timers[a] > 0 /\ watches[a] > 0
    /\ devs[heap[a].id] # NoDev

\* the run o did this and ended the request of the pending connect at a with
\* NotSupported: the reply, then the removal from the registry
EndsNotSupported(o, h, hnext, reg, a) ==
  /\ Len(o) = 3
  /\ o[2][1] = "reply" /\ o[2][2] = h[a].msg.serial /\ o[2][3] = "NotSupported"
  /\ o[3][1] = "remove" /\ o[3][2] = h[a].msg.serial
  /\ hnext[a] = NoPc
  /\ ~g_slist_find(reg, a)

\* C28: a ConnectService or CreatePort call whose pattern is a friendly name
\* or a UUID string, which is no duplicate and finds the adapter, sends one
\* handle lookup and nothing else; when the handle list arrives for the
\* pending connect (in the registry, not canceled) one record fetch is sent,
\* for the first handle of the list, and nothing else is done; the connect of
\* such a request is started by the run of record_reply only; an empty
\* handle list, and a record the channel cannot be had from, end the request
\* with NotSupported and no other record is fetched.
NameLooksUpFetchesFirstThenConnects ==
  [][ /\ (/\ IsSubmit(out')
          /\ IsNameOrUuid(out'[1][5])
          /\ ~IsPending(out'[1][4], out'[1][5]))
           => \/ OnlyReplied(out', "Failed")
              \/ OnlyReplied(out', "NotSupported")
              \/ /\ Len(out') = 2
                 /\ out'[2][1] = "get_handles" /\ out'[2][2] = out'[1][3]
                 /\ out'[2][3] = pattern2uuid128(out'[1][5]).uuid
      /\ \A a \in Addrs :
           /\ (/\ Ran(out', "handles_reply", a)
               /\ IsLive(a)
               /\ heap[a].canceled = 0
               /\ out'[1][3].kind = "handles")
                => IF Len(out'[1][3].handles) = 0
                     THEN EndsNotSupported(out', heap, heap', pending_connects', a)
                     ELSE \/ EndsNotSupported(out', heap, heap', pending_connects', a)
                          \/ /\ Len(out') = 2
                             /\ out'[2] = << "get_record", heap[a].msg.serial,
                                             out'[1][3].handles[1] >>
                             /\ record_calls'[a] = record_calls[a] + 1
                             /\ g_slist_find(pending_connects', a)
           /\ (/\ Ran(out', "record_reply", a)
               /\ IsLive(a)
               /\ heap[a].canceled = 0
               /\ IsUnusableRecord(out'[1][3]))
                => EndsNotSupported(out', heap, heap', pending_connects', a)
           /\ (/\ heap[a] # NoPc
               /\ IsNameOrUuid(heap[a].pattern)
               /\ Len(out') > 0
               /\ Did(out', "rfcomm_connect", heap[a].msg.serial))
                => /\ Ran(out', "record_reply", a)
                   /\ ~IsUnusableRecord(out'[1][3])
    ]_vars

\* C28 happens: a list of two handles arrived for a request made with a UUID
\* string, and the record of the first handle was asked for
FirstOfTwoHandlesFetched ==
  /\ Len(out) = 2
  /\ out[1][1] = "handles_reply"
  /\ out[1][3].kind = "handles"
  /\ out[1][3].handles = <<Handle2, Handle1>>
  /\ IsLive(out[1][2])
  /\ Len(heap[out[1][2]].pattern) > 3
  /\ out[2] = <<"get_record", heap[out[1][2]].msg.serial, Handle2>>
  /\ record_calls[out[1][2]] = 1

\* the pending connect in cell a of the heap h is of a CreatePort call
IsCreatePortPc(h, a) == h[a] # NoPc /\ h[a].msg.member = "CreatePort"
\* the steps of the Connecting, DeviceBinding and OpeningDevice stages, and
\* the release of a device
ConnectSteps == {"rfcomm_connect", "connect", "open", "port_add_listener", "release"}
\* from its event i on, the run o did this for the method call serial on the
\* channel ch and nothing else: it bound the persistent device id, stored the
\* binding, replied with the port and emitted PortCreated
CreatesPort(o, i, serial, id, ch) ==
  /\ Len(o) >= i + 3
  /\ o[i] = <<"bind", serial, id>>
  /\ o[i + 1] = <<"port_store", serial, id, ch>>
  /\ o[i + 2] = <<"reply", serial, "Return", id>>
  /\ o[i + 3] = <<"signal", serial, "PortCreated", id>>
\* the kernel has the persistent device id on the channel ch, made for serial
IsPersistentDev(d, id, serial, ch) ==
  /\ id \in DevIds
  /\ d[id] # NoDev
  /\ d[id].req = serial /\ d[id].channel = ch /\ d[id].persistent

\* C29: no run connects, opens or releases anything for a CreatePort call; its
\* pending connect never has a connect watch, a device or an open attempt; a
\* call that names a channel binds the persistent device, stores the binding,
\* replies with the port and emits PortCreated at once, with no pending
\* connect; and when the record arrives for the pending connect of a call (in
\* the registry, not canceled) with a channel in [1,30], the same is done and
\* the pending connect leaves the registry, the device staying bound.
CreatePortOnlyBinds ==
  [][ /\ (IsSubmit(out') /\ out'[1][2] = "CreatePort")
           => /\ \A i \in 2..Len(out') : out'[i][1] \notin ConnectSteps
              /\ (/\ IsDirectChannel(out'[1][5])
                  /\ ~IsPending(out'[1][4], out'[1][5]))
                   => \/ OnlyReplied(out', "Failed")
                      \/ /\ Len(out') = 5
                         /\ \E id \in DevIds :
                              /\ devs[id] = NoDev
                              /\ CreatesPort(out', 2, out'[1][3], id,
                                             NumberOf(out'[1][5]).mag[1])
                              /\ IsPersistentDev(devs', id, out'[1][3],
                                                 NumberOf(out'[1][5]).mag[1])
                              /\ ports_paths' = Append(ports_paths, id)
                         /\ pending_connects' = pending_connects
                         /\ heap' = heap
      /\ \A a \in Addrs :
           /\ IsCreatePortPc(heap, a)
                => \A i \in 2..Len(out') :
                     out'[i][2] = heap[a].msg.serial => out'[i][1] \notin ConnectSteps
           /\ IsCreatePortPc(heap', a)
                => /\ ~heap'[a].io_active
                   /\ heap'[a].id = -1 /\ heap'[a].dev = -1
                   /\ heap'[a].ntries = 0 /\ heap'[a].opens = 0
           /\ (/\ Ran(out', "record_reply", a)
               /\ IsLive(a)
               /\ IsCreatePortPc(heap, a)
               /\ heap[a].canceled = 0
               /\ out'[1][3].kind = "record"
               /\ ~IsUnusableRecord(out'[1][3]))
                => /\ heap'[a] = NoPc
                   /\ ~g_slist_find(pending_connects', a)
                   /\ \/ /\ Len(out') = 3
                         /\ Replied(out', heap[a].msg.serial, "Failed")
                         /\ out'[3] = <<"remove", heap[a].msg.serial>>
                         /\ devs' = devs
                      \/ /\ Len(out') = 6
                         /\ \E id \in DevIds :
                              /\ devs[id] = NoDev
                              /\ CreatesPort(out', 2, heap[a].msg.serial, id,
                                             out'[1][3].ch)
                              /\ IsPersistentDev(devs', id, heap[a].msg.serial,
                                                 out'[1][3].ch)
                              /\ ports_paths' = Append(ports_paths, id)
                         /\ out'[6] = <<"remove", heap[a].msg.serial>>
    ]_vars

\* C29 breaks: the open retry timer of an earlier request expired for the
\* pending connect of a CreatePort call, which has no device, and an open was
\* tried and counted for it
CreatePortRequestOpened ==
  \E a \in Addrs :
    /\ Ran(out, "open_continue", a)
    /\ IsLive(a)
    /\ IsCreatePortPc(heap, a)
    /\ heap[a].dev = -1
    /\ heap[a].ntries > 0
    /\ Did(out, "open", heap[a].msg.serial)

\* the callback cb cannot have been started for the pending connect in cell a
\* of the heap h: a discovery reply for a request that named its channel and
\* made no discovery call, a retry timer for a request that has no device
StartedByAnother(cb, h, a) ==
  /\ h[a] # NoPc
  /\ \/ cb \in {"handles_reply", "record_reply"} /\ IsDirectChannel(h[a].pattern)
     \/ cb = "open_continue" /\ h[a].dev = -1

\* C38 as stated, which fails: a discovery reply or retry timer started for a
\* pending connect that was destroyed does nothing to the pending connect
\* that was created later at the same address: the callback returns at its
\* test of the registry, the pending connect and the registry stay as they
\* were and nothing is sent or started.
LeftOverSparesLaterRequest ==
  [][ \A a \in Addrs, cb \in {"handles_reply", "record_reply", "open_continue"} :
        (Ran(out', cb, a) /\ IsLive(a) /\ StartedByAnother(cb, heap, a))
          => /\ Len(out') = 1
             /\ heap'[a] = heap[a]
             /\ pending_connects' = pending_connects
             /\ record_calls'[a] <= record_calls[a] ]_vars

\* C38 breaks: the handle list asked for by a destroyed request arrived for a
\* later request at the same address, which named its channel, and a record
\* is now fetched in the name of that request
LeftOverHandlesFetchRecord ==
  \E a \in Addrs :
    /\ Ran(out, "handles_reply", a)
    /\ IsLive(a)
    /\ IsDirectChannel(heap[a].pattern)
    /\ Len(out) = 2
    /\ out[2][1] = "get_record" /\ out[2][2] = heap[a].msg.serial
    /\ record_calls[a] > 0

\* the last run was the CancelConnectService call
IsCancel(o) == Len(o) > 0 /\ o[1][1] = "call" /\ o[1][2] = "CancelConnectService"
\* everything the pending connects wait for, and what was made for them
PendingResources ==
  << pending_connects, devs, handles_calls, record_calls, timers, watches,
     listeners, ports_paths >>

\* C33: CancelConnectService for an address and pattern that a pending connect
\* of the registry has sets the canceled flag of that pending connect and
\* answers the caller, and that is all: the registry, the other pending
\* connects, the devices, the outstanding calls, watches and timers stay as
\* they were and the requester is sent nothing.  For a pair that no pending
\* connect has the call is answered with DoesNotExist and nothing changes.
CancelOnlySetsFlag ==
  [][ IsCancel(out')
        => IF IsPending(out'[1][4], out'[1][5])
             THEN /\ \E a \in Addrs :
                       /\ IsLive(a)
                       /\ SameRequest(heap[a], [bda |-> out'[1][4],
                                                pattern |-> out'[1][5]])
                       /\ heap' = [heap EXCEPT ![a].canceled = 1]
                  /\ out' = << out'[1], <<"reply", 0, "Return", "">> >>
                  /\ UNCHANGED PendingResources
                  /\ status' = status
             ELSE /\ Len(out') = 2
                  /\ out'[2][1] = "reply" /\ out'[2][2] = 0
                  /\ out'[2][3] = "DoesNotExist"
                  /\ heap' = heap
                  /\ UNCHANGED PendingResources
                  /\ status' = status ]_vars

\* C33 happens: a request whose device is bound and is being opened was
\* canceled under another spelling of its address; it is in the registry
\* with its device and its timer
CanceledWhileOpening ==
  /\ IsCancel(out)
  /\ Len(out) = 2 /\ out[2][3] = "Return"
  /\ \E a \in Addrs :
       /\ IsLive(a)
       /\ heap[a].canceled = 1
       /\ heap[a].bda # out[1][4]
       /\ SameRequest(heap[a], [bda |-> out[1][4], pattern |-> out[1][5]])
       /\ heap[a].id \in DevIds /\ devs[heap[a].id] # NoDev
       /\ timers[a] > 0

\* the event ev tells of a success: the method return of a request, a signal
\* about its port, the hand-over of its descriptor to the port listener
IsSuccessEvent(ev) ==
  \/ ev[1] = "reply" /\ ev[3] = "Return"
  \/ ev[1] = "signal"
  \/ ev[1] = "port_add_listener"
  \/ ev[1] = "port_store"

\* C34: no run that starts with a pending connect canceled sends the method
\* return of its request, emits ServiceConnected or PortCreated for it, stores
\* a port for it or hands its descriptor to the port listener.
CanceledNeverSucceeds ==
  [][ \A a \in Addrs :
        (heap[a] # NoPc /\ heap[a].canceled = 1)
          => \A i \in 2..Len(out') :
               out'[i][2] = heap[a].msg.serial => ~IsSuccessEvent(out'[i]) ]_vars

\* C34 happens: the device of a canceled request was opened at a retry, and
\* the request was answered with Canceled and its device released
CanceledOpenSucceeded ==
  /\ Len(out) > 0
  /\ out[1][1] = "open_continue"
  /\ heap[out[1][2]] = NoPc
  /\ \E s \in Serials :
       /\ Opened(out, s, TRUE)
       /\ Replied(out, s, "Canceled")
       /\ Did(out, "release", s)
       /\ ~Replied(out, s, "Return")

\* the last run was transaction_owner_exited for this name
IsOwnerExit(o) == Len(o) > 0 /\ o[1][1] = "owner_exited"

\* C35: when a requester leaves the bus, every pending connect of another
\* requester stays as it was: in the registry, after the same pending
\* connects of other requesters, with every field it had, its device bound
\* and the call, watch or timer it waits for outstanding.
OwnerExitSparesOthers ==
  [][ IsOwnerExit(out')
        => /\ \A a \in Addrs :
                (IsLive(a) /\ heap[a].msg.sender # out'[1][2])
                  => /\ g_slist_find(pending_connects', a)
                     /\ heap'[a] = heap[a]
                     /\ handles_calls'[a] = handles_calls[a]
                     /\ record_calls'[a] = record_calls[a]
                     /\ timers'[a] = timers[a]
                     /\ watches'[a] = watches[a]
                     /\ heap[a].id \in DevIds => devs'[heap[a].id] = devs[heap[a].id]
                     /\ \A i \in 2..Len(out') : out'[i][2] # heap[a].msg.serial
           /\ pending_connects' =
                SelectSeq(pending_connects,
                          LAMBDA a : heap[a].msg.sender # out'[1][2]) ]_vars

\* C35 happens: a requester left and the device of its request was released,
\* while the request of another requester waits on with its device bound
OtherOwnerStillOpening ==
  /\ IsOwnerExit(out)
  /\ \E i \in 2..Len(out) : out[i][1] = "release"
  /\ \E a \in Addrs :
       /\ IsLive(a)
       /\ heap[a].msg.sender # out[1][2]
       /\ heap[a].id \in DevIds /\ devs[heap[a].id] # NoDev
       /\ timers[a] > 0

\* C36 as stated, which fails: an Enable call that is answered with a
\* failure leaves every field of its proxy as it was, the channel too.
FailedEnableChangesNothing ==
  [][ (IsMethod(out', "Enable") /\ EventsOf(out', "reply") # {}
       /\ \A i \in EventsOf(out', "reply") : out'[i][3] = "Failed")
        => objects'[out'[1][4]] = objects[out'[1][4]] ]_vars

\* C36 breaks: an Enable call on a proxy with channel 0 failed for the
\* record, after the listening socket was bound: the proxy is disabled and
\* has the channel the kernel chose
FailedEnableAssignedChannel ==
  /\ IsMethod(out, "Enable")
  /\ RepliedText(out, "Service registration failed")
  /\ objects[out[1][4]] # NoPrx
  /\ objects[out[1][4]].listen_watch = 0
  /\ objects[out[1][4]].record_id = 0
  /\ objects[out[1][4]].channel # 0
  /\ next_id = 1

\* the registry holds a pending connect of this requester
HasPendingOf(name) ==
  \E a \in Addrs : IsLive(a) /\ heap[a].msg.sender = name

\* C40 as stated, which fails: in every state a name listener is registered
\* for a requester if and only if the registry holds a pending connect of
\* that requester.
ListenerIffPending ==
  \A name \in Requesters : (listeners[name] > 0) <=> HasPendingOf(name)

\* C40 breaks: the connect and the open of a ConnectService call succeeded
\* inside the call, which was answered and left no pending connect; the name
\* listener added at the end of the call stays, for a requester that has no
\* request
ListenerLeftBySynchronousConnect ==
  /\ IsConnectService(out)
  /\ Replied(out, out[1][3], "Return")
  /\ Did(out, "remove", out[1][3])
  /\ status = "running"
  /\ \E name \in Requesters : listeners[name] > 0 /\ ~HasPendingOf(name)

\* the last run was manager_unregister
IsUnregister(o) == Len(o) > 0 /\ o[1][1] = "manager_unregister"

\* C39 as stated, which fails: manager_unregister empties the registry and
\* frees its pending connects, sends no reply, and leaves no device bound
\* that a pending connect of the registry had; and every discovery reply,
\* connect completion and timer that comes afterwards does nothing.
UnregisterEndsPending ==
  [][ /\ IsUnregister(out')
           => /\ pending_connects' = << >>
              /\ \A i \in 2..Len(out') : out'[i][1] \notin {"reply", "signal"}
              /\ \A a \in Addrs :
                   IsLive(a)
                     => /\ heap'[a] = NoPc
                        /\ (heap[a].id \in DevIds /\ devs[heap[a].id] # NoDev)
                             => devs'[heap[a].id] = NoDev
      /\ (/\ status = "unregistered"
          /\ Len(out') > 0
          /\ out'[1][1] \in {"handles_reply", "record_reply", "open_continue"})
           => /\ Len(out') = 1
              /\ UNCHANGED PendingState ]_vars

\* C39 breaks: the manager was unregistered while a request waited for its
\* device to open; the pending connect is freed and the device stays bound
DeviceLeftByUnregister ==
  /\ IsUnregister(out)
  /\ pending_connects = << >>
  /\ \A a \in Addrs : heap[a] = NoPc
  /\ \E id \in DevIds :
       /\ devs[id] # NoDev
       /\ ~devs[id].persistent /\ ~devs[id].listener
  /\ \E a \in Addrs : timers[a] > 0

\* a callback of a pending connect is dispatched: a discovery reply arrives, a
\* connect completes or fails, a timeout expires
Dispatch ==
  \E a \in Addrs, e \in FewEnvs :
    \/ \E reply \in FewHandlesReplies : HandlesReply(a, reply, EnvOk)
    \/ \E reply \in FewRecordReplies : RecordReply(a, reply, e)
    \/ OpenTimeout(a, e)
    \/ \E cond \in {"G_IO_OUT", "G_IO_NVAL"} : ConnectWatch(a, cond, e)

\* several requests at a time, with a bus that answers every call and a main
\* loop that dispatches every callback in the end
NextFair ==
  \/ \E sender \in {"r1"}, a \in Addrs, pattern \in FewPatterns, e \in FewEnvs :
       \/ ConnectService(sender, a, <<"a">>, pattern, e)
       \/ CreatePort(sender, a, <<"a">>, pattern, e)
  \/ \E pattern \in FewPatterns : CancelConnectService(<<"a">>, pattern)
  \/ Callbacks(FewHandlesReplies, FewRecordReplies, {EnvOk}, FewEnvs, FewEnvs)
  \/ \E a \in Addrs, cond \in {"G_IO_OUT", "G_IO_NVAL"}, e \in FewEnvs :
       OrphanWatch(a, cond, e)

SpecFair == Init /\ [][NextFair]_vars /\ WF_vars(Dispatch)

\* the registry holds the pending connect of the method call serial
InRegistry(serial) ==
  \E a \in Addrs : IsLive(a) /\ heap[a].msg.serial = serial

\* C37: when every discovery call is answered, every connect completes or
\* fails and every timeout expires, a request that is in the registry,
\* canceled or not and whatever it waits for, leaves the registry in the end
\* (unless the process has crashed before).
EveryRequestLeaves ==
  \A serial \in Serials :
    InRegistry(serial) ~> (~InRegistry(serial) \/ status = "crashed")

\* C37 happens: the device of a request could not be opened at the last
\* retry, and the request left the registry with an error
GaveUpOpening ==
  /\ Len(out) > 0
  /\ out[1][1] = "open_continue"
  /\ heap[out[1][2]] = NoPc
  /\ pending_connects = << >>
  /\ \E s \in Serials :
       /\ Opened(out, s, FALSE)
       /\ Replied(out, s, "ConnectionAttemptFailed")
       /\ Did(out, "remove", s)

\* the bytes the run o read, and the bytes it wrote, in order
RECURSIVE BytesRead(_, _)
BytesRead(o, i) ==
  IF i > Len(o) THEN << >>
    ELSE (IF o[i][1] = "read" THEN o[i][4] ELSE << >>) \o BytesRead(o, i + 1)
RECURSIVE BytesWritten(_, _)
BytesWritten(o, i) ==
  IF i > Len(o) THEN << >>
    ELSE (IF o[i][1] = "write" THEN SubSeq(o[i][4], 1, o[i][5]) ELSE << >>)
           \o BytesWritten(o, i + 1)
IsPrefix(s, t) == Len(s) <= Len(t) /\ SubSeq(t, 1, Len(s)) = s
\* the last run was forward_data
IsForward(o) == Len(o) > 0 /\ o[1][1] = "forward_data"
\* the write o[i] took only a part of what it was offered
IsPartialWrite(o, i) ==
  o[i][1] = "write" /\ ~o[i][6] /\ o[i][5] < Len(o[i][4])

\* C31: in every run of forward_data the bytes written to the destination
\* are a prefix of the bytes read from the source; a write is offered the
\* chunk just read, or what a partial write left of it, from the first
\* unwritten byte; a partial write is followed by another write; and when
\* not all that was read was written, a write failed or the destination was
\* gone, and the watch is destroyed, so that nothing is written after the gap.
WrittenIsPrefixOfRead ==
  [][ IsForward(out')
        => /\ IsPrefix(BytesWritten(out', 2), BytesRead(out', 2))
           /\ \A i \in 2..Len(out') :
                /\ out'[i][1] = "write"
                     => \/ out'[i-1][1] = "read" /\ out'[i][4] = out'[i-1][4]
                        \/ /\ IsPartialWrite(out', i - 1)
                           /\ out'[i][4] = SubSeq(out'[i-1][4], out'[i-1][5] + 1,
                                                  Len(out'[i-1][4]))
                /\ IsPartialWrite(out', i)
                     => i < Len(out') /\ out'[i+1][1] = "write"
           /\ BytesWritten(out', 2) # BytesRead(out', 2)
                => /\ sources'[out'[1][2]] = NoSrc
                   /\ \/ \E i \in 2..Len(out') : out'[i][1] = "write" /\ out'[i][6]
                      \/ sources[sources[out'[1][2]].dest] = NoSrc ]_vars

\* C31 happens: the destination took the first byte of a chunk of two, the
\* second byte was offered again and written, and the watch goes on
PartialWriteCompleted ==
  /\ IsForward(out)
  /\ Len(out) = 4
  /\ out[2][1] = "read" /\ out[2][4] = <<1, 2>>
  /\ out[3] = <<"write", 0, out[1][2], <<1, 2>>, 1, FALSE>>
  /\ out[4] = <<"write", 0, out[1][2], <<2>>, 1, FALSE>>
  /\ sources[out[1][2]] # NoSrc

\* the run o of forward_data found its side at an end: a hang-up or an error
\* condition, a read error, or a read of no bytes, the end of the stream
SideEnded(o) ==
  /\ IsForward(o)
  /\ \/ o[1][3] = "G_IO_HUP"
     \/ \E i \in 2..Len(o) : o[i][1] = "read" /\ (o[i][5] \/ o[i][4] = << >>)
\* the watch added with the watch id for the same connection: connect_event
\* adds the two after the accept watch, whose id is 1
Partner(id) == IF id % 2 = 0 THEN id + 1 ELSE id - 1
BothStopped(id) ==
  /\ sources[id] = NoSrc
  /\ Partner(id) \in WatchIds => sources[Partner(id)] = NoSrc

\* C32 as stated, which fails: a run of forward_data that finds its side at
\* an end (hang-up, error or end of stream) closes the channel of its
\* destination, having written every byte it read unless a write failed; and
\* after such a run, in the end, both watches of the connection are destroyed
\* and with them both descriptors closed.
EndedSideClosesBoth ==
  /\ [][ \A id \in WatchIds :
           (SideEnded(out') /\ out'[1][2] = id /\ sources[id] # NoSrc
            /\ sources[sources[id].dest] # NoSrc)
             => /\ \E i \in 2..Len(out') :
                     out'[i] = <<"close", 0, "channel", sources[id].dest>>
                /\ sources'[sources[id].dest].fd_open = FALSE
                /\ \/ BytesWritten(out', 2) = BytesRead(out', 2)
                   \/ \E i \in 2..Len(out') : out'[i][1] = "write" /\ out'[i][6]
       ]_vars
  /\ \A id \in WatchIds \ {1} :
       (SideEnded(out) /\ out[1][2] = id) ~> BothStopped(id)

\* C32 breaks: the source of a direction is at the end of its stream, which
\* the main loop reports as readable: nothing is read, nothing is closed and
\* both watches stay
EndOfStreamIgnored ==
  /\ IsForward(out)
  /\ out[1][3] = "G_IO_IN"
  /\ Len(out) = 2
  /\ out[2][1] = "read" /\ ~out[2][5] /\ out[2][4] = << >>
  /\ sources[out[1][2]] # NoSrc
  /\ sources[sources[out[1][2]].dest] # NoSrc
  /\ sources[sources[out[1][2]].dest].fd_open

====
